---- MODULE Spec2Model ----
(***************************************************************************)
(* Senior-living placement assistant: the five-step intake workflow        *)
(* (upload, transcribe, preferences, rank, results) over the Streamlit     *)
(* session state, in the two variants of the application, APP_01.py and    *)
(* app_v2.py.  One action is one run of the script: the run an operator    *)
(* interaction starts, or the run that st.rerun() queues.                  *)
(***************************************************************************)
EXTENDS Integers, Sequences, FiniteSets, TLC

VARIABLES
    variant,        \* which script is deployed: "APP_01" or "app_v2"
    step,           \* st.session_state.step
    audio_files,    \* st.session_state.audio_files
    transcription,  \* st.session_state.transcription
    preferences,    \* st.session_state.preferences
    results,        \* st.session_state.results
    api_key,        \* value of the sidebar text input
    uploader,       \* value of the st.file_uploader widget
    pending,        \* st.rerun() was called: the next run starts by itself
    last            \* what the last script run did (history of one run)

vars == <<variant, step, audio_files, transcription, preferences, results,
          api_key, uploader, pending, last>>

session == <<step, audio_files, transcription, preferences, results>>

----------------------------------------------------------------------------
(* Python values.  None, and the values a JSON payload can hold, are       *)
(* tagged records; a text is a sequence of characters.                     *)

None == [t |-> "None"]
Absent == [t |-> "absent"]
PyInt(n) == [t |-> "int", c |-> n * 100]
PyFloat(cents) == [t |-> "float", c |-> cents]
PyStr(chars) == [t |-> "str", s |-> chars]
PyBool(b) == [t |-> "bool", b |-> b]
PyList(l) == [t |-> "list", l |-> l]

IsNum(v) == v.t \in {"int", "float"}

\* bool(v) of a value read with dict.get: a missing key reads as None
Truthy(v) ==
    CASE v.t = "None" -> FALSE
      [] v.t = "absent" -> FALSE
      [] v.t = "int" -> v.c # 0
      [] v.t = "float" -> v.c # 0
      [] v.t = "str" -> Len(v.s) > 0
      [] v.t = "bool" -> v.b
      [] v.t = "list" -> Len(v.l) > 0
      [] v.t = "dict" -> \E k \in DOMAIN v : k # "t" /\ v[k] # Absent
      [] v.t = "df" -> TRUE
      [] OTHER -> TRUE

\* dict.get(key): None when the key is missing
Get(v) == IF v = Absent THEN None ELSE v

\* a == b in Python: numbers compare by value, other values by type and value
PyEq(a, b) ==
    IF IsNum(a) /\ IsNum(b) THEN a.c = b.c ELSE a = b

----------------------------------------------------------------------------
(* The workflow states and the session defaults.                           *)

Steps == <<"upload", "transcribe", "preferences", "rank", "results">>

StepSet == {Steps[i] : i \in 1..Len(Steps)}

StepIndex(s) == CHOOSE i \in 1..Len(Steps) : Steps[i] = s

default_sessions ==
    [step |-> "upload", audio_files |-> None, transcription |-> None,
     preferences |-> None, results |-> None]

----------------------------------------------------------------------------
(* Texts: str.lower, substring test, str(), float() and the fee pattern.   *)

UpperCase == <<"A","B","C","D","E","F","G","H","I","J","K","L","M",
               "N","O","P","Q","R","S","T","U","V","W","X","Y","Z">>

LowerCase == <<"a","b","c","d","e","f","g","h","i","j","k","l","m",
               "n","o","p","q","r","s","t","u","v","w","x","y","z">>

Digits == <<"0","1","2","3","4","5","6","7","8","9">>

\* the value of a digit character
DigitMap == [ch \in {Digits[i] : i \in 1..10} |->
                (CHOOSE i \in 1..10 : Digits[i] = ch) - 1]

IsDigit(ch) == ch \in DOMAIN DigitMap

DigitVal(ch) == DigitMap[ch]

\* the lower-case letter of an upper-case letter
LowerMap == [ch \in {UpperCase[i] : i \in 1..26} |->
                LowerCase[CHOOSE i \in 1..26 : UpperCase[i] = ch]]

LowerChar(ch) == IF ch \in DOMAIN LowerMap THEN LowerMap[ch] ELSE ch

\* s.lower()
Lower(s) == [i \in 1..Len(s) |-> LowerChar(s[i])]

\* needle in hay
Contains(hay, needle) ==
    \E i \in 0..(Len(hay) - Len(needle)) :
        SubSeq(hay, i + 1, i + Len(needle)) = needle

\* s.replace(ch, "")
RECURSIVE Remove(_, _)
Remove(s, ch) ==
    IF s = <<>> THEN <<>>
    ELSE IF Head(s) = ch THEN Remove(Tail(s), ch)
    ELSE <<Head(s)>> \o Remove(Tail(s), ch)

\* s.strip()
RECURSIVE LStrip(_)
LStrip(s) ==
    IF s # <<>> /\ Head(s) = " " THEN LStrip(Tail(s)) ELSE s

RECURSIVE RStrip(_)
RStrip(s) ==
    IF s # <<>> /\ s[Len(s)] = " " THEN RStrip(SubSeq(s, 1, Len(s) - 1)) ELSE s

Strip(s) == RStrip(LStrip(s))

\* decimal digits of a natural number
RECURSIVE NatStr(_)
NatStr(n) ==
    IF n < 10 THEN <<Digits[n + 1]>>
    ELSE NatStr(n \div 10) \o <<Digits[(n % 10) + 1]>>

\* the digits after the point that repr() prints for a number of cents
FracStr(f) ==
    IF f % 10 = 0 THEN <<Digits[(f \div 10) + 1]>>
    ELSE <<Digits[(f \div 10) + 1], Digits[(f % 10) + 1]>>

AbsVal(n) == IF n < 0 THEN 0 - n ELSE n

\* str(v) for the values a budget can hold
Str(v) ==
    CASE v.t = "str" -> v.s
      [] v.t = "int" ->
            (IF v.c < 0 THEN <<"-">> ELSE <<>>) \o NatStr(AbsVal(v.c) \div 100)
      [] v.t = "float" ->
            (IF v.c < 0 THEN <<"-">> ELSE <<>>) \o NatStr(AbsVal(v.c) \div 100)
                \o <<".">> \o FracStr(AbsVal(v.c) % 100)
      [] v.t = "bool" -> IF v.b THEN <<"T","r","u","e">>
                                ELSE <<"F","a","l","s","e">>
      [] OTHER -> <<"n","a","n">>

\* length of the run of digits at the front of s
RECURSIVE DigitRun(_)
DigitRun(s) ==
    IF s # <<>> /\ IsDigit(Head(s)) THEN 1 + DigitRun(Tail(s)) ELSE 0

\* value of a sequence of digits
RECURSIVE DigitsVal(_)
DigitsVal(s) ==
    IF s = <<>> THEN 0
    ELSE DigitsVal(SubSeq(s, 1, Len(s) - 1)) * 10 + DigitVal(s[Len(s)])

\* a fraction's digits as cents (amounts carry at most two decimals)
FracCents(s) ==
    IF Len(s) = 0 THEN 0
    ELSE IF Len(s) = 1 THEN DigitVal(s[1]) * 10
    ELSE DigitVal(s[1]) * 10 + DigitVal(s[2])

\* digits [ "." digits ] read as cents
DecimalCents(s) ==
    LET n == DigitRun(s)
        rest == SubSeq(s, n + 1, Len(s))
    IN  DigitsVal(SubSeq(s, 1, n)) * 100
        + (IF rest # <<>> /\ Head(rest) = "." THEN FracCents(Tail(rest)) ELSE 0)

\* s is digits [ "." [digits] ] or "." digits, the unsigned literals of float()
IsDecimal(s) ==
    LET n == DigitRun(s)
        rest == SubSeq(s, n + 1, Len(s))
    IN  \/ n > 0 /\ rest = <<>>
        \/ n > 0 /\ Head(rest) = "." /\ DigitRun(Tail(rest)) = Len(rest) - 1
        \/ n = 0 /\ Len(rest) > 1 /\ Head(rest) = "."
               /\ DigitRun(Tail(rest)) = Len(rest) - 1

\* float(s): [ok, c] with c in cents; ok is FALSE where float() raises ValueError
ParseFloat(s0) ==
    LET s == Strip(s0)
        signed == s # <<>> /\ Head(s) \in {"-", "+"}
        body == IF signed THEN Tail(s) ELSE s
    IN  IF IsDecimal(body)
        THEN [ok |-> TRUE,
              c |-> IF signed /\ Head(s) = "-" THEN 0 - DecimalCents(body)
                    ELSE DecimalCents(body)]
        ELSE [ok |-> FALSE, c |-> 0]

\* first match of the pattern (\d+\.?\d*) in s, <<>> when there is none
RECURSIVE FirstNumber(_)
FirstNumber(s) ==
    IF s = <<>> THEN <<>>
    ELSE IF IsDigit(Head(s))
    THEN LET n == DigitRun(s)
             rest == SubSeq(s, n + 1, Len(s))
         IN  IF rest # <<>> /\ Head(rest) = "."
             THEN SubSeq(s, 1, n + 1 + DigitRun(Tail(rest)))
             ELSE SubSeq(s, 1, n)
    ELSE FirstNumber(Tail(s))

----------------------------------------------------------------------------
(* The community catalog.  A row holds the raw cell values of the sheet;   *)
(* a blank cell is the empty text, NaN is a missing value.                 *)

NaN == [t |-> "nan"]

\* pd.notna(v)
NotNa(v) == v.t \notin {"nan", "None"}

txtAssistedLiving == <<"A","s","s","i","s","t","e","d"," ","L","i","v","i","n","g">>
txtMemoryCare == <<"M","e","m","o","r","y"," ","C","a","r","e">>
txtIndependentLiving == <<"I","n","d","e","p","e","n","d","e","n","t"," ","L","i","v","i","n","g">>
txtEnhancedAL == <<"E","n","h","a","n","c","e","d"," ","A","s","s","i","s","t","e","d"," ","L","i","v","i","n","g">>
txtAssistedMemory == <<"A","s","s","i","s","t","e","d"," ","L","i","v","i","n","g"," ","/"," ","M","e","m","o","r","y"," ","C","a","r","e">>
txtSkilledNursing == <<"S","k","i","l","l","e","d"," ","N","u","r","s","i","n","g">>

RowA == [CommunityID |-> 1, Service |-> PyStr(txtAssistedLiving),
         Fee |-> PyStr(<<"$","4",",","0","0","0",".","0","0">>), Enhanced |-> PyStr(<<"Y","e","s">>),
         Enriched |-> PyStr(<<"n","o">>), Contract |-> PyStr(<<"Y","e","s"," ","R","a","t","e"," ","A">>),
         Placement |-> PyStr(<<"n","o">>), Zip |-> PyInt(14620)]

RowB == [CommunityID |-> 2, Service |-> PyStr(txtMemoryCare),
         Fee |-> PyInt(3000), Enhanced |-> PyStr(<<"n","o">>),
         Enriched |-> PyStr(<<"Y","e","s">>), Contract |-> PyStr(<<"n","o">>),
         Placement |-> PyStr(<<"y","e","s">>), Zip |-> PyStr(<<>>)]

RowC == [CommunityID |-> 3, Service |-> PyStr(txtIndependentLiving),
         Fee |-> PyStr(<<"N","/","A">>), Enhanced |-> PyStr(<<"y","e","s">>),
         Enriched |-> PyStr(<<"y","e","s">>), Contract |-> PyStr(<<>>),
         Placement |-> PyStr(<<"n","o">>), Zip |-> PyInt(14534)]

RowD == [CommunityID |-> 4, Service |-> PyStr(txtAssistedLiving),
         Fee |-> PyStr(<<"$","5",",","0","0","0">>), Enhanced |-> PyStr(<<"Y","E","S">>),
         Enriched |-> PyStr(<<>>), Contract |-> PyStr(<<"N","o">>),
         Placement |-> PyStr(<<"Y","e","s">>), Zip |-> PyStr(<<"1","4","6","2","O">>)]

RowE == [CommunityID |-> 5, Service |-> PyStr(txtAssistedMemory),
         Fee |-> PyStr(<<"$","2",",","8","0","0">>), Enhanced |-> PyStr(<<"n","o">>),
         Enriched |-> PyStr(<<"n","o">>), Contract |-> PyStr(<<"n","o">>),
         Placement |-> PyStr(<<"n","o">>), Zip |-> NaN]

RowF == [CommunityID |-> 6, Service |-> PyStr(txtAssistedLiving),
         Fee |-> PyStr(<<"$","4",",","2","0","0">>), Enhanced |-> PyStr(<<"y","e","s">>),
         Enriched |-> PyStr(<<"y","e","s">>), Contract |-> PyStr(<<"Y","e","s"," ","R","a","t","e"," ","A">>),
         Placement |-> PyStr(<<"y","e","s">>), Zip |-> PyInt(501)]

SampleRows == <<RowA, RowB, RowC, RowD, RowE, RowF>>

----------------------------------------------------------------------------
(* Ranking, part 1: budget, fee, filters and priority.                     *)

\* FIX BUDGET: a truthy max_budget becomes float(str(v) without commas), or
\* None where float() raises; the record st.session_state holds is the one
\* that is written
FixBudget(prefs) ==
    LET v == Get(prefs.max_budget)
        f == ParseFloat(Remove(Str(v), ","))
    IN  IF Truthy(v)
        THEN [prefs EXCEPT !.max_budget =
                 IF f.ok THEN PyFloat(f.c) ELSE None]
        ELSE prefs

\* CleanFee without the removal of the thousands separator
CleanFee_KeepsComma(raw) ==
    LET m == FirstNumber(Remove(Str(raw), "$"))
    IN  IF m = <<>> THEN NaN ELSE PyFloat(DecimalCents(m))

\* CLEAN MONTHLY FEE: astype(str), drop "$" and ",", first number, to_numeric
CleanFee(raw) ==
    LET m == FirstNumber(Remove(Remove(Str(raw), "$"), ","))
    IN  IF m = <<>> THEN NaN ELSE PyFloat(DecimalCents(m))

CleanRow(r) == [r EXCEPT !.Fee = CleanFee(r.Fee)]

kwAssisted == <<<<"a","s","s","i","s","t","e","d">>, <<"a","l">>, <<"e","n","h","a","n","c","e","d">>>>
kwMemory == <<<<"m","e","m","o","r","y">>, <<"d","e","m","e","n","t","i","a">>>>
kwIndependent == <<<<"i","n","d","e","p","e","n","d","e","n","t">>, <<"i","l">>>>

\* any(k in text for k in kws)
AnyIn(text, kws) == \E i \in 1..Len(kws) : Contains(text, kws[i])

\* CareClass with the first class as the default of a text without keyword
CareClass_DefaultsToAssisted(prefs) ==
    LET v == Get(prefs.care_level)
        text == Lower(Str(v))
    IN  IF ~Truthy(v) THEN <<>>
        ELSE IF AnyIn(text, kwAssisted) THEN <<"A","s","s","i","s","t","e","d">>
        ELSE IF AnyIn(text, kwMemory) THEN <<"M","e","m","o","r","y">>
        ELSE IF AnyIn(text, kwIndependent) THEN <<"I","n","d","e","p","e","n","d","e","n","t">>
        ELSE <<"A","s","s","i","s","t","e","d">>

\* CareClass with the memory class tested before the assisted class
CareClass_MemoryFirst(prefs) ==
    LET v == Get(prefs.care_level)
        text == Lower(Str(v))
    IN  IF ~Truthy(v) THEN <<>>
        ELSE IF AnyIn(text, kwMemory) THEN <<"M","e","m","o","r","y">>
        ELSE IF AnyIn(text, kwAssisted) THEN <<"A","s","s","i","s","t","e","d">>
        ELSE IF AnyIn(text, kwIndependent) THEN <<"I","n","d","e","p","e","n","d","e","n","t">>
        ELSE <<>>

\* the class the care-level preference selects, "" when no filter applies
CareClass(prefs) ==
    LET v == Get(prefs.care_level)
        text == Lower(Str(v))
    IN  IF ~Truthy(v) THEN <<>>
        ELSE IF AnyIn(text, kwAssisted) THEN <<"A","s","s","i","s","t","e","d">>
        ELSE IF AnyIn(text, kwMemory) THEN <<"M","e","m","o","r","y">>
        ELSE IF AnyIn(text, kwIndependent) THEN <<"I","n","d","e","p","e","n","d","e","n","t">>
        ELSE <<>>

\* str.contains(word, case=False, na=False)
ServiceContains(r, word) ==
    r.Service.t = "str" /\ Contains(Lower(r.Service.s), Lower(word))

\* SMART CARE LEVEL
CareFilter(prefs, rows) ==
    LET word == CareClass(prefs)
        Keep(r) == ServiceContains(r, word)
    IN  IF word = <<>> THEN rows ELSE SelectSeq(rows, Keep)

\* prefs.get(flag) in [True, "true", "True", "Yes"]
FlagSet(v) ==
    \/ v = PyBool(TRUE)
    \/ v \in {PyStr(<<"t","r","u","e">>), PyStr(<<"T","r","u","e">>), PyStr(<<"Y","e","s">>)}
    \/ IsNum(v) /\ v.c = 100

\* astype(str).str.lower() == "yes"
IsYes(v) == Lower(Str(v)) = <<"y","e","s">>

\* EnhancedFilter that keeps the first row with the flag only
EnhancedFilter_FirstOnly(prefs, rows) ==
    LET Keep(r) == IsYes(r.Enhanced)
        kept == SelectSeq(rows, Keep)
    IN  IF FlagSet(Get(prefs.enhanced))
        THEN (IF kept = <<>> THEN kept ELSE <<kept[1]>>)
        ELSE rows

\* ENHANCED
EnhancedFilter(prefs, rows) ==
    LET Keep(r) == IsYes(r.Enhanced)
    IN  IF FlagSet(Get(prefs.enhanced)) THEN SelectSeq(rows, Keep) ELSE rows

\* ENRICHED
EnrichedFilter(prefs, rows) ==
    LET Keep(r) == IsYes(r.Enriched)
    IN  IF FlagSet(Get(prefs.enriched)) THEN SelectSeq(rows, Keep) ELSE rows

\* the budget filter compares the fee column with a number; with any other
\* value that is not None the comparison raises TypeError
BudgetRaises(prefs) ==
    LET b == Get(prefs.max_budget)
    IN  b # None /\ ~IsNum(b) /\ b.t # "bool"

\* BudgetFilter with a comparison that lets a missing fee pass
BudgetFilter_KeepsMissing(prefs, rows) ==
    LET b == Get(prefs.max_budget)
        limit == IF b.t = "bool" THEN (IF b.b THEN 100 ELSE 0) ELSE b.c
        Keep(r) == r.Fee.t # "float" \/ r.Fee.c <= limit
    IN  IF b # None THEN SelectSeq(rows, Keep) ELSE rows

\* BUDGET FILTER: NaN <= b is False
BudgetFilter(prefs, rows) ==
    LET b == Get(prefs.max_budget)
        limit == IF b.t = "bool" THEN (IF b.b THEN 100 ELSE 0) ELSE b.c
        Keep(r) == r.Fee.t = "float" /\ r.Fee.c <= limit
    IN  IF b # None THEN SelectSeq(rows, Keep) ELSE rows

\* assign_priority with tier 2 for every community without contract
assign_priority_AnyPlacement(r) ==
    LET c == Lower(Str(r.Contract))
        p == Lower(Str(r.Placement))
    IN  IF c \notin {<<"n","o">>, <<"n","a","n">>, <<>>} THEN 1
        ELSE IF c = <<"n","o">> THEN 2
        ELSE 3

\* PRIORITY
assign_priority(r) ==
    LET c == Lower(Str(r.Contract))
        p == Lower(Str(r.Placement))
    IN  IF c \notin {<<"n","o">>, <<"n","a","n">>, <<>>} THEN 1
        ELSE IF c = <<"n","o">> /\ p = <<"y","e","s">> THEN 2
        ELSE 3

----------------------------------------------------------------------------
(* Ranking, part 2: geocoding, distance, town lookup.                      *)
(* A coordinate is <<latitude, longitude>> in units of 0.0001 degree.      *)

txtRochester == <<"R","o","c","h","e","s","t","e","r",","," ","N","Y">>
txtPittsford == <<"P","i","t","t","s","f","o","r","d",","," ","N","Y">>
txtAtlantis == <<"A","t","l","a","n","t","i","s">>

\* the Rochester default of the ranking stage, (43.1566, -77.6088)
DefaultCoord == <<431566, -776088>>

\* what the geocoding service answers when it finds the query
Gazetteer ==
    {[q |-> txtRochester, c |-> <<431573, -776152>>],
     [q |-> txtPittsford, c |-> <<430906, -775150>>],
     [q |-> <<"1","4","6","2","0",","," ","N","Y">>, c |-> <<431290, -776050>>],
     [q |-> <<"1","4","5","3","4",","," ","N","Y">>, c |-> <<430900, -775200>>],
     [q |-> <<"0","0","5","0","1",","," ","N","Y">>, c |-> <<408100, -730400>>]}

\* the ways one geolocator.geocode call can end: a location, None, an exception
Outcomes == {"found", "none", "error"}

geocode(q, o) ==
    LET hits == {g \in Gazetteer : g.q = q}
    IN  IF o = "error" THEN [r |-> "error"]
        ELSE IF o = "found" /\ hits # {}
        THEN [r |-> "found", c |-> (CHOOSE g \in hits : TRUE).c]
        ELSE [r |-> "none"]

\* geodesic(a, b).miles, as the distance of the two points on the grid
Geodesic(a, b) == AbsVal(a[1] - b[1]) + AbsVal(a[2] - b[2])

EvCall(w, q, res) == [e |-> "geocode", w |-> w, q |-> q, r |-> res.r]
EvSleep == [e |-> "sleep", w |-> "", q |-> <<>>, r |-> ""]

\* locs = prefs.get("preferred_location", ["Rochester, NY"]); a str is wrapped
\* in a list; ok is FALSE when the value cannot be iterated (TypeError)
PreferredLocs(prefs) ==
    LET v == prefs.preferred_location
    IN  CASE v = Absent -> [ok |-> TRUE, l |-> <<PyStr(txtRochester)>>]
          [] v.t = "str" -> [ok |-> TRUE, l |-> <<v>>]
          [] v.t = "list" -> [ok |-> TRUE, l |-> v.l]
          [] OTHER -> [ok |-> FALSE, l |-> <<>>]

\* the loop over locs: call i ends as oc[i]; time.sleep(1) is inside the try,
\* after the call, so an exception skips it
RECURSIVE PrefLoop(_, _, _, _, _)
PrefLoop(locs, oc, i, coords, log) ==
    IF i > Len(locs) THEN [coords |-> coords, log |-> log]
    ELSE LET res == IF locs[i].t = "str" THEN geocode(locs[i].s, oc[i])
                    ELSE [r |-> "error"]
             q == IF locs[i].t = "str" THEN locs[i].s ELSE <<>>
         IN  PrefLoop(locs, oc, i + 1,
                 IF res.r = "found" THEN Append(coords, res.c) ELSE coords,
                 log \o <<EvCall("preferred", q, res)>>
                     \o (IF res.r = "error" THEN <<>> ELSE <<EvSleep>>))

\* if not coords_list: coords_list = [default]
WithDefault(coords) == IF coords = <<>> THEN <<DefaultCoord>> ELSE coords

\* float(z) of a cell value
CellFloat(z) ==
    CASE z.t = "int" -> [ok |-> TRUE, c |-> z.c]
      [] z.t = "float" -> [ok |-> TRUE, c |-> z.c]
      [] z.t = "str" -> ParseFloat(z.s)
      [] OTHER -> [ok |-> FALSE, c |-> 0]

\* f"{n:05d}" and str(n).zfill(5)
RECURSIVE ZFill5(_)
ZFill5(s) == IF Len(s) >= 5 THEN s ELSE ZFill5(<<"0">> \o s)

ZipText(z) == ZFill5(NatStr(CellFloat(z).c \div 100))

ZipQuery(z) == ZipText(z) \o <<",", " ", "N", "Y">>

\* get_coord makes a geocoding call for the row
ZipCalls(zip_col, r) == zip_col /\ NotNa(r.Zip) /\ CellFloat(r.Zip).ok

\* df.apply(get_coord, axis=1): k is the number of geocoding calls made so far
RECURSIVE CoordLoop(_, _, _, _, _, _, _)
CoordLoop(rows, zip_col, oc, k, i, out, log) ==
    IF i > Len(rows) THEN [coords |-> out, log |-> log]
    ELSE IF ZipCalls(zip_col, rows[i])
    THEN LET q == ZipQuery(rows[i].Zip)
             res == geocode(q, oc[k + 1])
         IN  CoordLoop(rows, zip_col, oc, k + 1, i + 1,
                 Append(out, IF res.r = "found" THEN res.c ELSE <<>>),
                 log \o <<EvCall("community", q, res)>>
                     \o (IF res.r = "error" THEN <<>> ELSE <<EvSleep>>))
    ELSE CoordLoop(rows, zip_col, oc, k, i + 1, Append(out, <<>>), log)

\* MinOver that looks at the first reference coordinate only
MinOver_First(c, refs) == Geodesic(c, refs[1])

RECURSIVE MinOver(_, _)
MinOver(c, refs) ==
    IF Len(refs) = 1 THEN Geodesic(c, refs[1])
    ELSE LET m == MinOver(c, Tail(refs))
             d == Geodesic(c, refs[1])
         IN  IF d <= m THEN d ELSE m

\* dist(c): None for an unresolved coordinate (<<>>); min() of an empty
\* coords_list raises and is caught
dist(c, coords_list) ==
    IF c = <<>> \/ coords_list = <<>> THEN None
    ELSE PyFloat(MinOver(c, coords_list))

\* the postal table of pgeocode: the place name of a known code
PostalTable ==
    {[z |-> <<"1","4","6","2","0">>, town |-> <<"R","o","c","h","e","s","t","e","r">>],
     [z |-> <<"1","4","5","3","4">>, town |-> <<"P","i","t","t","s","f","o","r","d">>],
     [z |-> <<"0","0","5","0","1">>, town |-> <<"H","o","l","t","s","v","i","l","l","e">>]}

\* the Town column of APP_01: the lambda converts every code that is not NaN
TownRaises(rows) ==
    \E i \in 1..Len(rows) : NotNa(rows[i].Zip) /\ ~CellFloat(rows[i].Zip).ok

Town(z) ==
    IF ~NotNa(z) THEN None
    ELSE IF \E e \in PostalTable : e.z = ZipText(z)
    THEN PyStr((CHOOSE e \in PostalTable : e.z = ZipText(z)).town)
    ELSE NaN

----------------------------------------------------------------------------
(* Ranking, part 3: sort, rank within tier, and the whole stage.           *)

\* row a sorts strictly before row b: tier ascending, then distance
\* ascending, a row without distance after the rows that have one
Before(a, b) ==
    \/ a.Priority_Level < b.Priority_Level
    \/ /\ a.Priority_Level = b.Priority_Level
       /\ a.Distance_miles # None
       /\ (b.Distance_miles = None \/ a.Distance_miles.c < b.Distance_miles.c)

\* insert x in front of the rows it ties with: a sort that is not stable
RECURSIVE Insert_Unstable(_, _)
Insert_Unstable(sorted, x) ==
    IF sorted = <<>> THEN <<x>>
    ELSE IF ~Before(sorted[Len(sorted)], x)
    THEN Append(Insert_Unstable(SubSeq(sorted, 1, Len(sorted) - 1), x), sorted[Len(sorted)])
    ELSE Append(sorted, x)

\* insert x behind every row that does not sort after it (the sort is stable)
RECURSIVE Insert(_, _)
Insert(sorted, x) ==
    IF sorted = <<>> THEN <<x>>
    ELSE IF Before(x, sorted[Len(sorted)])
    THEN Append(Insert(SubSeq(sorted, 1, Len(sorted) - 1), x), sorted[Len(sorted)])
    ELSE Append(sorted, x)

\* the frame left in the order the filters gave it
sort_values_KeepsOrder(rows) == rows

\* df.sort_values(by=["Priority_Level", "Distance_miles"])
RECURSIVE sort_values(_)
sort_values(rows) ==
    IF rows = <<>> THEN <<>>
    ELSE Insert(sort_values(SubSeq(rows, 1, Len(rows) - 1)), rows[Len(rows)])

\* df.groupby("Priority_Level").cumcount() + 1
cumcount1(rows, i) ==
    Cardinality({j \in 1..i : rows[j].Priority_Level = rows[i].Priority_Level})

\* df["Rank_Within_Priority"] = ...: the column is added, or written over
WithRank(rows) ==
    [i \in 1..Len(rows) |->
        ("Rank_Within_Priority" :> cumcount1(rows, i)) @@ rows[i]]

\* the rows that survive the four filters, fees cleaned
Filtered(prefs, cat) ==
    LET cleaned == [i \in 1..Len(cat.rows) |-> CleanRow(cat.rows[i])]
    IN  BudgetFilter(prefs,
            EnrichedFilter(prefs,
                EnhancedFilter(prefs,
                    CareFilter(prefs, cleaned))))

\* a sheet without records gives a frame without columns: the first filter
\* that applies raises KeyError
FilterRaises(prefs, cat) ==
    \/ /\ cat.rows = <<>>
       /\ \/ CareClass(prefs) # <<>>
          \/ FlagSet(Get(prefs.enhanced))
          \/ FlagSet(Get(prefs.enriched))
          \/ Get(prefs.max_budget) # None
    \/ BudgetRaises(prefs)

\* zip_col: the first column whose name contains "zip", if any
HasZipCol(cat) == cat.zip_col /\ cat.rows # <<>>

\* APP_01 adds Town and Rank_Within_Priority, app_v2 does not
RankedRow(app, r, zip_col, coord, coords_list) ==
    LET base == r @@ ("Priority_Level" :> assign_priority(r))
                  @@ ("Community_Coords" :>
                         IF coord = <<>> THEN None ELSE [t |-> "coord", c |-> coord])
                  @@ ("Distance_miles" :> dist(coord, coords_list))
    IN  IF app = "APP_01" /\ zip_col
        THEN base @@ ("Town" :> Town(r.Zip))
        ELSE base

\* The first half of the ranking stage (the try block up to the budget
\* filter) on the preferences prefs0 and the sheet cat, loaded or not: the
\* statement that raised (error), the preference record as the stage leaves
\* it, the surviving rows, and the rows of the sheet as loaded.
Select(prefs0, cat, loaded) ==
    LET prefs == FixBudget(prefs0)
    IN  IF ~loaded
        THEN [error |-> "load", prefs |-> prefs0, rows |-> <<>>, sheet |-> <<>>]
        ELSE IF FilterRaises(prefs, cat)
        THEN [error |-> "filter", prefs |-> prefs, rows |-> <<>>, sheet |-> cat.rows]
        ELSE IF ~PreferredLocs(prefs).ok
        THEN [error |-> "locations", prefs |-> prefs, rows |-> Filtered(prefs, cat),
              sheet |-> cat.rows]
        ELSE [error |-> "none", prefs |-> prefs, rows |-> Filtered(prefs, cat),
              sheet |-> cat.rows]

\* the frame the stage stores: its rows, and whether it has the Town column
DataFrame(rows, town) == [t |-> "df", rows |-> rows, town |-> town]

\* the number of geolocator.geocode calls the second half makes
NumCalls(sel, zip_col) ==
    IF sel.error # "none" THEN 0
    ELSE Len(PreferredLocs(sel.prefs).l)
         + Cardinality({i \in 1..Len(sel.rows) : ZipCalls(zip_col, sel.rows[i])})

\* Locate with the frame stored before the town lookup instead of after the sort
Locate_StoresEarly(app, sel, zip_col, oc) ==
    LET rows == sel.rows
        locs == PreferredLocs(sel.prefs)
        pl == PrefLoop(locs.l, oc, 1, <<>>, <<>>)
        coords_list == WithDefault(pl.coords)
        cl == CoordLoop(rows, zip_col, oc, Len(locs.l), 1, <<>>, pl.log)
        ranked == [i \in 1..Len(rows) |->
                      RankedRow(app, rows[i], zip_col, cl.coords[i], coords_list)]
        sorted == sort_values(ranked)
        failed(error, refs, log) ==
            [ok |-> FALSE, error |-> error, prefs |-> sel.prefs,
             results |-> IF error = "postal"
                         THEN DataFrame(ranked, app = "APP_01" /\ zip_col) ELSE None,
             coords_list |-> refs, log |-> log,
             filtered |-> sel.error \notin {"load", "filter"}, survivors |-> rows,
             loaded |-> sel.sheet]
    IN  IF sel.error # "none" THEN failed(sel.error, <<>>, <<>>)
        ELSE IF app = "APP_01" /\ zip_col /\ TownRaises(rows)
        THEN failed("postal", coords_list, cl.log)
        ELSE [ok |-> TRUE, error |-> "none", prefs |-> sel.prefs,
              results |-> DataFrame(IF app = "APP_01" THEN WithRank(sorted)
                                    ELSE sorted,
                                    app = "APP_01" /\ zip_col),
              coords_list |-> coords_list, log |-> cl.log,
              filtered |-> TRUE, survivors |-> rows, loaded |-> sel.sheet]

\* Locate with the communities geocoded before the filters
Locate_GeocodesLoaded(app, sel, zip_col, oc) ==
    LET rows == sel.rows
        locs == PreferredLocs(sel.prefs)
        pl == PrefLoop(locs.l, oc, 1, <<>>, <<>>)
        coords_list == WithDefault(pl.coords)
        cl == CoordLoop(rows, zip_col, oc, Len(locs.l), 1, <<>>, pl.log)
        every == [k \in 1..(Len(locs.l) + Len(sel.sheet)) |->
                     IF k \in DOMAIN oc THEN oc[k] ELSE "none"]
        early == CoordLoop(sel.sheet, zip_col, every, Len(locs.l), 1, <<>>, pl.log)
        ranked == [i \in 1..Len(rows) |->
                      RankedRow(app, rows[i], zip_col, cl.coords[i], coords_list)]
        sorted == sort_values(ranked)
        failed(error, refs, log) ==
            [ok |-> FALSE, error |-> error, prefs |-> sel.prefs, results |-> None,
             coords_list |-> refs, log |-> log,
             filtered |-> sel.error \notin {"load", "filter"}, survivors |-> rows,
             loaded |-> sel.sheet]
    IN  IF sel.error # "none" THEN failed(sel.error, <<>>, <<>>)
        ELSE IF app = "APP_01" /\ zip_col /\ TownRaises(rows)
        THEN failed("postal", coords_list, early.log)
        ELSE [ok |-> TRUE, error |-> "none", prefs |-> sel.prefs,
              results |-> DataFrame(IF app = "APP_01" THEN WithRank(sorted)
                                    ELSE sorted,
                                    app = "APP_01" /\ zip_col),
              coords_list |-> coords_list, log |-> early.log,
              filtered |-> TRUE, survivors |-> rows, loaded |-> sel.sheet]

\* The second half of the ranking stage (priority, geocoding, distance, town,
\* sort, rank, store) on the outcome sel of the first half and the outcomes
\* oc of the geocoding calls.  The result gives the exit of the try block
\* (ok, error), the preference record, the frame stored in results (None
\* when the block raised), the reference coordinates (<<>> when the run
\* never built them), the log of geocoding calls and sleeps, whether the
\* run got past the filters, the rows they left, and the rows loaded.
Locate(app, sel, zip_col, oc) ==
    LET rows == sel.rows
        locs == PreferredLocs(sel.prefs)
        pl == PrefLoop(locs.l, oc, 1, <<>>, <<>>)
        coords_list == WithDefault(pl.coords)
        cl == CoordLoop(rows, zip_col, oc, Len(locs.l), 1, <<>>, pl.log)
        ranked == [i \in 1..Len(rows) |->
                      RankedRow(app, rows[i], zip_col, cl.coords[i], coords_list)]
        sorted == sort_values(ranked)
        failed(error, refs, log) ==
            [ok |-> FALSE, error |-> error, prefs |-> sel.prefs, results |-> None,
             coords_list |-> refs, log |-> log,
             filtered |-> sel.error \notin {"load", "filter"}, survivors |-> rows,
             loaded |-> sel.sheet]
    IN  IF sel.error # "none" THEN failed(sel.error, <<>>, <<>>)
        ELSE IF app = "APP_01" /\ zip_col /\ TownRaises(rows)
        THEN failed("postal", coords_list, cl.log)
        ELSE [ok |-> TRUE, error |-> "none", prefs |-> sel.prefs,
              results |-> DataFrame(IF app = "APP_01" THEN WithRank(sorted)
                                    ELSE sorted,
                                    app = "APP_01" /\ zip_col),
              coords_list |-> coords_list, log |-> cl.log,
              filtered |-> TRUE, survivors |-> rows, loaded |-> sel.sheet]

----------------------------------------------------------------------------
(* Preference records, transcripts and the extraction stage.               *)

\* a preference record: the keys the ranking reads, and name_of_patient for
\* the keys it does not read; a missing key holds Absent
Prefs(budget, care, enh, enr, loc, name) ==
    [t |-> "dict", max_budget |-> budget, care_level |-> care,
     enhanced |-> enh, enriched |-> enr, preferred_location |-> loc,
     name_of_patient |-> name]

txtAnn == <<"A","n","n">>

PrefsSamples ==
    {Prefs(PyInt(4500), PyStr(txtAssistedLiving), PyStr(<<>>), PyStr(<<>>),
           PyList(<<PyStr(txtRochester), PyStr(txtPittsford)>>), PyStr(txtAnn)),
     Prefs(PyStr(<<"4",",","0","0","0">>), PyStr(txtMemoryCare), PyStr(<<"Y","e","s">>), PyStr(<<"n","o">>),
           PyStr(txtRochester), PyStr(txtAnn)),
     Prefs(PyStr(<<"4","0","0","0">>), PyStr(<<>>), PyBool(TRUE), PyStr(<<"y","e","s">>),
           PyList(<<PyStr(txtAtlantis), PyStr(txtPittsford)>>), None),
     Prefs(PyStr(<<"a","b","c">>), PyStr(txtSkilledNursing), PyStr(<<"n","o">>), PyBool(TRUE),
           PyList(<<>>), PyStr(txtAnn)),
     Prefs(None, PyStr(txtIndependentLiving), None, None, None, PyStr(txtAnn)),
     Prefs(PyStr(<<>>), PyStr(txtEnhancedAL), PyStr(<<>>), PyStr(<<>>),
           PyList(<<PyStr(txtAtlantis)>>), PyStr(<<>>)),
     Prefs(Absent, Absent, Absent, Absent, Absent, Absent)}

Transcripts == {<<>>, <<"h","i">>, <<"$","4",",","0","0","0">>}

\* one match of \$\s*(\d{1,3}(?:,\d{3})*(?:\.\d{2})?) at the text after a "$":
\* the cents of the captured number, -1 when there is no match
RECURSIVE Thousands(_, _)
Thousands(s, acc) ==
    IF Len(s) >= 4 /\ s[1] = "," /\ DigitRun(Tail(s)) >= 3
    THEN Thousands(SubSeq(s, 5, Len(s)), acc * 1000 + DigitsVal(SubSeq(s, 2, 4)))
    ELSE [rest |-> s, n |-> acc]

DollarMatch(after) ==
    LET s == LStrip(after)
        d == IF DigitRun(s) > 3 THEN 3 ELSE DigitRun(s)
        g == Thousands(SubSeq(s, d + 1, Len(s)), DigitsVal(SubSeq(s, 1, d)))
        cents == IF Len(g.rest) >= 3 /\ g.rest[1] = "." /\ DigitRun(Tail(g.rest)) >= 2
                 THEN DigitsVal(SubSeq(g.rest, 2, 3)) ELSE 0
    IN  IF d = 0 THEN 0 - 1 ELSE g.n * 100 + cents

\* the budget the patterns find in a transcript, as int(max(matches)), or
\* None; the second and third pattern need one of the words "dollars",
\* "per month", "budget", "maximum", "max", "up to", which no transcript of
\* Transcripts carries
RegexBudget(text) ==
    LET found == {DollarMatch(SubSeq(text, i + 1, Len(text))) :
                     i \in {j \in 1..Len(text) : text[j] = "$"}} \ {0 - 1}
    IN  IF found = {} THEN None
        ELSE PyInt((CHOOSE m \in found : \A x \in found : x <= m) \div 100)

\* The text of the model's reply as a sequence of pieces: the fence (three
\* backquotes), the word "json", white space, the text of a JSON object with
\* value v, the JSON text null, and text that is no JSON.
tkFence == [k |-> "fence"]
tkJson == [k |-> "json"]
tkSpace == [k |-> "space"]
tkJunk == [k |-> "junk"]
tkObject(p) == [k |-> "object", v |-> p]
tkNull == [k |-> "null"]

\* fence + "json" in raw, fence in raw
HasFenceJson(s) == \E i \in 1..(Len(s) - 1) : s[i].k = "fence" /\ s[i + 1].k = "json"

HasFence(s) == \E i \in 1..Len(s) : s[i].k = "fence"

\* text.split(fence)[0]
UpToFence(s) ==
    IF HasFence(s)
    THEN SubSeq(s, 1, (CHOOSE i \in 1..Len(s) :
                          /\ s[i].k = "fence"
                          /\ \A j \in 1..(i - 1) : s[j].k # "fence") - 1)
    ELSE s

\* raw.split(fence + "json")[1].split(fence)[0]
AfterFenceJson(s) ==
    LET i == CHOOSE i \in 1..(Len(s) - 1) :
                 /\ s[i].k = "fence" /\ s[i + 1].k = "json"
                 /\ \A j \in 1..(i - 1) : ~(s[j].k = "fence" /\ s[j + 1].k = "json")
    IN  UpToFence(SubSeq(s, i + 2, Len(s)))

\* raw.split(fence)[1].split(fence)[0]
AfterFence(s) ==
    LET i == CHOOSE i \in 1..Len(s) :
                 s[i].k = "fence" /\ \A j \in 1..(i - 1) : s[j].k # "fence"
    IN  UpToFence(SubSeq(s, i + 1, Len(s)))

\* text.strip()
StripText(s) ==
    LET ix == {i \in 1..Len(s) : s[i].k # "space"}
    IN  IF ix = {} THEN <<>>
        ELSE SubSeq(s, CHOOSE i \in ix : \A j \in ix : i <= j,
                       CHOOSE i \in ix : \A j \in ix : j <= i)

\* json.loads(text): white space around one JSON text, anything else raises
json_loads(s) ==
    LET text == StripText(s)
    IN  IF Len(text) = 1 /\ text[1].k = "object"
        THEN [ok |-> TRUE, value |-> text[1].v]
        ELSE IF Len(text) = 1 /\ text[1].k = "null"
        THEN [ok |-> TRUE, value |-> None]
        ELSE [ok |-> FALSE, value |-> None]

\* the content of the model's reply: None, or a body with or without a
\* code fence; the body is empty, blank, malformed, the JSON of a record, or
\* the JSON text null
Fences == {"none", "json", "plain"}

Wrap(f, body) ==
    CASE f = "none" -> body
      [] f = "json" -> <<tkFence, tkJson, tkSpace>> \o body \o <<tkSpace, tkFence>>
      [] f = "plain" -> <<tkFence, tkSpace>> \o body \o <<tkSpace, tkFence>>

NoContent == None

Payloads ==
    {NoContent}
    \cup {PyStr(Wrap(f, <<tkObject(p)>>)) : f \in Fences, p \in PrefsSamples}
    \cup {PyStr(Wrap(f, b)) : f \in Fences, b \in {<<>>, <<tkSpace>>, <<tkJunk>>}}
    \cup {PyStr(Wrap(f, <<tkNull>>)) : f \in Fences}

\* ParseV1 with an empty text read as the empty record
ParseV1_EmptyAsRecord(raw, transcript) ==
    LET text == IF raw = None THEN <<>>
                ELSE IF HasFenceJson(raw.s) THEN StripText(AfterFenceJson(raw.s))
                ELSE IF HasFence(raw.s) THEN StripText(AfterFence(raw.s))
                ELSE raw.s
        doc == json_loads(text)
        guess == RegexBudget(transcript)
    IN  IF raw = None \/ StripText(text) = <<>>
        THEN [ok |-> TRUE, prefs |-> Prefs(Absent, Absent, Absent, Absent, Absent, Absent)]
        ELSE IF ~doc.ok \/ doc.value = None
        THEN [ok |-> FALSE, prefs |-> None]
        ELSE IF ~Truthy(Get(doc.value.max_budget)) /\ guess # None
        THEN [ok |-> TRUE, prefs |-> [doc.value EXCEPT !.max_budget = guess]]
        ELSE [ok |-> TRUE, prefs |-> doc.value]

\* APP_01: strip the fence, reject an empty text, json.loads, then look for
\* a budget in the transcript when the record has none.  A reply without
\* content raises at the first membership test, a value that is no record
\* at prefs.get.
ParseV1(raw, transcript) ==
    LET text == IF raw = None THEN <<>>
                ELSE IF HasFenceJson(raw.s) THEN StripText(AfterFenceJson(raw.s))
                ELSE IF HasFence(raw.s) THEN StripText(AfterFence(raw.s))
                ELSE raw.s
        doc == json_loads(text)
        guess == RegexBudget(transcript)
    IN  IF raw = None \/ StripText(text) = <<>> \/ ~doc.ok \/ doc.value = None
        THEN [ok |-> FALSE, prefs |-> None]
        ELSE IF ~Truthy(Get(doc.value.max_budget)) /\ guess # None
        THEN [ok |-> TRUE, prefs |-> [doc.value EXCEPT !.max_budget = guess]]
        ELSE [ok |-> TRUE, prefs |-> doc.value]

\* app_v2: reject an empty text, json.loads of the text as it came; the
\* value is stored whatever it is
ParseV2(raw) ==
    LET doc == IF raw = None THEN [ok |-> FALSE, value |-> None]
               ELSE json_loads(raw.s)
    IN  IF raw = None \/ StripText(raw.s) = <<>> \/ ~doc.ok
        THEN [ok |-> FALSE, prefs |-> None]
        ELSE [ok |-> TRUE, prefs |-> doc.value]

----------------------------------------------------------------------------
(* The inputs of the environment.                                          *)

\* bounds of the model
MaxRows == 3

AudioSamples == {[t |-> "file", name |-> "call.m4a"]}

\* the key the OpenAI service accepts; "" is the empty text input
GoodKey == "sk-key"

ApiKeys == {"", GoodKey}

\* the sheets the catalog source can hold: codes that resolve; a missing
\* code, a good one, a blank one; a malformed code; no zip column; no record
Sheets ==
    {[rows |-> <<RowA, RowF, RowC>>, zip_col |-> TRUE],
     [rows |-> <<RowE, RowA, RowB, RowF>>, zip_col |-> TRUE],
     [rows |-> <<RowD, RowC>>, zip_col |-> TRUE],
     [rows |-> <<RowB>>, zip_col |-> TRUE],
     [rows |-> <<RowA, RowC>>, zip_col |-> FALSE],
     [rows |-> <<>>, zip_col |-> FALSE]}

FirstRows(rows, n) == SubSeq(rows, 1, IF Len(rows) < n THEN Len(rows) ELSE n)

\* what load_private_google_sheet can return: the first MaxRows records of a sheet
Catalogs ==
    {[rows |-> FirstRows(sh.rows, MaxRows), zip_col |-> sh.zip_col] : sh \in Sheets}

\* what the operator types into the budget input
BudgetInputs == {4500}

care_options == <<txtIndependentLiving, txtAssistedLiving, txtEnhancedAL, txtMemoryCare>>

\* max_value of the budget input
MaxBudgetInput == 50000

----------------------------------------------------------------------------
(* The record of the last script run.                                      *)

\* op: the widget or run that acted; by: "operator" or "rerun"; from: the
\* step the run started in; stage: the stage whose try block was entered
\* ("none" if none was); ext: how the block ended ("ok", "fail"); error:
\* what raised; coords_list and log: the reference coordinates and the
\* geocoding calls and sleeps of a ranking run; raw: the reply of the
\* extraction call (Absent without a reply); filtered and survivors: the
\* ranking run passed the filters, and the rows they left; loaded: the rows
\* of the sheet the run loaded; page: what the results page rendered
NoPage == [rendered |-> FALSE, error |-> "none", matches |-> 0 - 1,
           shown |-> <<>>, explained |-> <<>>]

Ran(op, by, stage, ext, error, refs, log) ==
    [op |-> op, by |-> by, from |-> step, stage |-> stage, ext |-> ext,
     error |-> error, coords_list |-> refs, log |-> log, raw |-> Absent,
     filtered |-> FALSE, survivors |-> <<>>, loaded |-> <<>>, page |-> NoPage]

Did(op, by) == Ran(op, by, "none", "none", "none", <<>>, <<>>)

Init ==
    /\ variant \in {"APP_01", "app_v2"}
    /\ step = default_sessions.step
    /\ audio_files = default_sessions.audio_files
    /\ transcription = default_sessions.transcription
    /\ preferences = default_sessions.preferences
    /\ results = default_sessions.results
    /\ api_key = ""
    /\ uploader = None
    /\ pending = FALSE
    /\ last = Did("init", "rerun")

----------------------------------------------------------------------------
(* The ranking runs the stage can make on a preference record.             *)

\* every run of the stage: the sheet fails to load, or it loads as one of
\* Catalogs and each geocoding call ends in one of Outcomes
RankRuns(app, prefs) ==
    {Locate(app, Select(prefs, [rows |-> <<>>, zip_col |-> FALSE], FALSE),
            FALSE, <<>>)}
    \cup UNION {LET sel == Select(prefs, cat, TRUE)
                IN  {Locate(app, sel, HasZipCol(cat), oc) :
                        oc \in [1..NumCalls(sel, HasZipCol(cat)) -> Outcomes]} :
                cat \in Catalogs}

\* the runs of app_v2 on a stored value that is no record: the sheet fails
\* to load, or it loads and prefs.get raises; the block leaves at the raise
NoRecordRuns ==
    {[ok |-> FALSE, error |-> "load", prefs |-> None, results |-> None,
      coords_list |-> <<>>, log |-> <<>>, filtered |-> FALSE,
      survivors |-> <<>>, loaded |-> <<>>]}
    \cup {[ok |-> FALSE, error |-> "record", prefs |-> None, results |-> None,
           coords_list |-> <<>>, log |-> <<>>, filtered |-> FALSE,
           survivors |-> <<>>, loaded |-> cat.rows] : cat \in Catalogs}

----------------------------------------------------------------------------
(* The results page.  The widgets render what they are given; what can     *)
(* raise is the program's own expressions on the frame and the record.     *)

\* communities shown per tier (APP_01) and in all (app_v2)
TopN == 5

\* the rows of the frame in tier k
Tier(rows, k) ==
    LET Keep(r) == r.Priority_Level = k
    IN  SelectSeq(rows, Keep)

\* the rows the page opens an expander for, in the order of display:
\* APP_01 the first TopN of each tier, app_v2 df.head(TopN)
Displayed(app, rows) ==
    IF app = "APP_01"
    THEN FirstRows(Tier(rows, 1), TopN) \o FirstRows(Tier(rows, 2), TopN)
             \o FirstRows(Tier(rows, 3), TopN)
    ELSE FirstRows(rows, TopN)

\* the explanation call is made for a community: APP_01 asks for a key that
\* starts with "sk-", app_v2 for a key that is not empty
Explains(app, key) == IF app = "APP_01" THEN key = GoodKey ELSE key # ""

\* ", ".join(locations) of the client summary raises for a list with an
\* element that is no text
SummaryRaises(prefs) ==
    LET locs == prefs.preferred_location
    IN  /\ locs.t = "list"
        /\ \E i \in 1..Len(locs.l) : locs.l[i].t # "str"

\* prefs.get('name_of_patient', 'client').replace(' ', '_') of the download
\* section of APP_01 raises for a stored name that is no text
NameRaises(app, prefs) ==
    /\ app = "APP_01"
    /\ prefs.name_of_patient # Absent
    /\ prefs.name_of_patient.t # "str"

\* app_v2 builds the prompt with round(row.get('Distance_miles', 0), 1),
\* inside the try: it raises when the column holds None, which is the case
\* when no row of the frame has a distance
PromptRaises(app, rows) ==
    /\ app = "app_v2"
    /\ \A i \in 1..Len(rows) : rows[i].Distance_miles = None

\* the outcomes of the explanation calls of one page: one per community
\* on display when the key is set, in the order of display
Explanations(app, frame, key) ==
    IF Explains(app, key)
    THEN [1..Len(Displayed(app, frame.rows)) ->
             IF PromptRaises(app, frame.rows) THEN {"fail"} ELSE {"ok", "fail"}]
    ELSE {<<>>}

\* Render with the loop left at the first explanation that fails
Render_StopsAtFailure(app, prefs, frame, key, oc) ==
    LET rows == Displayed(app, frame.rows)
        bad == {i \in 1..Len(rows) : Explains(app, key) /\ oc[i] = "fail"}
        n == IF bad = {} THEN Len(rows)
             ELSE CHOOSE i \in bad : \A j \in bad : i <= j
        page(error, matches, m) ==
            [rendered |-> TRUE, error |-> error, matches |-> matches,
             shown |-> [i \in 1..m |-> rows[i].CommunityID],
             explained |-> [i \in 1..m |->
                               IF Explains(app, key) THEN oc[i] ELSE "none"]]
    IN  IF app = "APP_01" /\ ~frame.town
        THEN page("KeyError", 0 - 1, 0)
        ELSE IF SummaryRaises(prefs)
        THEN page("TypeError", Len(frame.rows), 0)
        ELSE IF NameRaises(app, prefs)
        THEN page("AttributeError", Len(frame.rows), n)
        ELSE page("none", Len(frame.rows), n)

\* One rendering of the results page on the stored frame and record with
\* the key of the sidebar and the outcomes oc of the explanation calls: the
\* count of the "Found ... matching communities" line (-1 when the page
\* raised before it), the communities on display in order, the outcome of
\* each one's explanation ("none" without a call), and what raised.
Render(app, prefs, frame, key, oc) ==
    LET rows == Displayed(app, frame.rows)
        page(error, matches, m) ==
            [rendered |-> TRUE, error |-> error, matches |-> matches,
             shown |-> [i \in 1..m |-> rows[i].CommunityID],
             explained |-> [i \in 1..m |->
                               IF Explains(app, key) THEN oc[i] ELSE "none"]]
    IN  IF app = "APP_01" /\ ~frame.town
        THEN page("KeyError", 0 - 1, 0)
        ELSE IF SummaryRaises(prefs)
        THEN page("TypeError", Len(frame.rows), 0)
        ELSE IF NameRaises(app, prefs)
        THEN page("AttributeError", Len(frame.rows), Len(rows))
        ELSE page("none", Len(frame.rows), Len(rows))

----------------------------------------------------------------------------
(* APP_01.py.  Every run renders the sidebar first, then the block of the  *)
(* current step.  st.rerun() after a change starts a run that only         *)
(* displays, so the action of a button includes it.                        *)

\* the sidebar of APP_01 has the Start Over button, that of app_v2 has not
StartOverShown == variant = "APP_01"

\* Start Over with the results key left out of the reset
StartOver_KeepsResults ==
    /\ StartOverShown
    /\ ~pending
    /\ step' = default_sessions.step
    /\ audio_files' = default_sessions.audio_files
    /\ transcription' = default_sessions.transcription
    /\ preferences' = default_sessions.preferences
    /\ UNCHANGED results
    /\ uploader' = None
    /\ last' = Did("Start Over", "operator")
    /\ UNCHANGED <<variant, api_key, pending>>

\* Start Over: every key of default_sessions is written back.  The run ends
\* in the sidebar, so the uploader is not rendered and loses its file.
StartOver ==
    /\ StartOverShown
    /\ ~pending
    /\ step' = default_sessions.step
    /\ audio_files' = default_sessions.audio_files
    /\ transcription' = default_sessions.transcription
    /\ preferences' = default_sessions.preferences
    /\ results' = default_sessions.results
    /\ uploader' = None
    /\ last' = Did("Start Over", "operator")
    /\ UNCHANGED <<variant, api_key, pending>>

\* step 1: the operator puts a file into the uploader.  APP_01 stores it and
\* shows the Continue button; app_v2 stores it, moves on and reruns.
UploadAudio ==
    /\ step = "upload"
    /\ ~pending
    /\ \E f \in AudioSamples :
          /\ uploader # f
          /\ audio_files' = f
          /\ IF variant = "APP_01"
             THEN uploader' = f /\ UNCHANGED <<step, pending>>
             ELSE uploader' = None /\ step' = "transcribe" /\ pending' = TRUE
    /\ last' = Did("file_uploader", "operator")
    /\ UNCHANGED <<variant, transcription, preferences, results, api_key>>

\* step 1: the operator takes the file out of the uploader; audio_files keeps it
RemoveAudio ==
    /\ step = "upload"
    /\ ~pending
    /\ uploader # None
    /\ uploader' = None
    /\ last' = Did("file_uploader", "operator")
    /\ UNCHANGED <<variant, session, api_key, pending>>

ContinueToTranscription ==
    /\ variant = "APP_01"
    /\ step = "upload"
    /\ uploader # None
    /\ audio_files' = uploader
    /\ step' = "transcribe"
    /\ uploader' = None
    /\ last' = Did("Continue to Transcription", "operator")
    /\ UNCHANGED <<variant, transcription, preferences, results, api_key, pending>>

\* step 2, the Start Transcription button: shown while the transcription is
\* falsy and a key is entered
StartTranscription ==
    /\ variant = "APP_01"
    /\ step = "transcribe"
    /\ api_key # ""
    /\ ~Truthy(transcription)
    /\ \/ /\ api_key = GoodKey
          /\ \E text \in Transcripts : transcription' = PyStr(text)
          /\ last' = Ran("Start Transcription", "operator", "transcribe", "ok",
                         "none", <<>>, <<>>)
       \/ /\ UNCHANGED transcription
          /\ last' = Ran("Start Transcription", "operator", "transcribe", "fail",
                         "call", <<>>, <<>>)
    /\ UNCHANGED <<variant, step, audio_files, preferences, results, api_key,
                   uploader, pending>>

ContinueToPreferences ==
    /\ variant = "APP_01"
    /\ step = "transcribe"
    /\ api_key # ""
    /\ Truthy(transcription)
    /\ step' = "preferences"
    /\ last' = Did("Continue to Preference Extraction", "operator")
    /\ UNCHANGED <<variant, audio_files, transcription, preferences, results,
                   api_key, uploader, pending>>

\* step 3, the Extract Preferences button: shown while preferences is falsy
ExtractPreferences ==
    /\ variant = "APP_01"
    /\ step = "preferences"
    /\ ~Truthy(preferences)
    /\ \/ /\ api_key = GoodKey
          /\ \E raw \in Payloads :
                LET r == ParseV1(raw, transcription.s)
                IN  IF r.ok
                    THEN /\ preferences' = r.prefs
                         /\ last' = [Ran("Extract Preferences", "operator",
                                         "preferences", "ok", "none", <<>>, <<>>)
                                         EXCEPT !.raw = raw]
                    ELSE /\ UNCHANGED preferences
                         /\ last' = [Ran("Extract Preferences", "operator",
                                         "preferences", "fail", "parse", <<>>, <<>>)
                                         EXCEPT !.raw = raw]
       \/ /\ UNCHANGED preferences
          /\ last' = Ran("Extract Preferences", "operator", "preferences", "fail",
                         "call", <<>>, <<>>)
    /\ UNCHANGED <<variant, step, audio_files, transcription, results, api_key,
                   uploader, pending>>

\* int(s) accepts an optional sign and digits
IsIntText(s0) ==
    LET s == Strip(s0)
        body == IF s # <<>> /\ Head(s) \in {"-", "+"} THEN Tail(s) ELSE s
    IN  body # <<>> /\ DigitRun(body) = Len(body)

\* int(current_budget) of a truthy budget, in dollars
BudgetInt(v) ==
    CASE v.t = "str" -> ParseFloat(v.s).c \div 100
      [] v.t = "bool" -> 1
      [] OTHER -> v.c \div 100

\* current_budget of step 3: None for a falsy budget and for the text "NULL"
CurrentBudget(prefs) ==
    LET v == Get(prefs.max_budget)
    IN  IF ~Truthy(v) \/ v = PyStr(<<"N","U","L","L">>) THEN None ELSE v

\* the budget input of step 3 raises, and the run ends there, when int() of
\* the stored budget raises or the value is outside 0..max_value
BudgetWidgetRaises(prefs) ==
    LET v == CurrentBudget(prefs)
    IN  /\ v # None
        /\ \/ v.t \notin {"str", "int", "float", "bool"}
           \/ v.t = "str" /\ ~IsIntText(v.s)
           \/ v.t \in {"str", "int", "float"}
                 /\ (BudgetInt(v) < 0 \/ BudgetInt(v) > MaxBudgetInput)

\* Update Budget that also writes the default care level
UpdateBudget_SetsCare ==
    /\ variant = "APP_01"
    /\ step = "preferences"
    /\ Truthy(preferences)
    /\ ~BudgetWidgetRaises(preferences)
    /\ \E n \in BudgetInputs :
          /\ n > 0
          /\ n <= MaxBudgetInput
          /\ ~PyEq(PyInt(n), CurrentBudget(preferences))
          /\ preferences' = [preferences EXCEPT !.max_budget = PyInt(n),
                                                !.care_level = PyStr(txtAssistedLiving)]
    /\ last' = Did("Update Budget", "operator")
    /\ UNCHANGED <<variant, step, audio_files, transcription, results, api_key,
                   uploader, pending>>

UpdateBudget ==
    /\ variant = "APP_01"
    /\ step = "preferences"
    /\ Truthy(preferences)
    /\ ~BudgetWidgetRaises(preferences)
    /\ \E n \in BudgetInputs :
          /\ n > 0
          /\ n <= MaxBudgetInput
          /\ ~PyEq(PyInt(n), CurrentBudget(preferences))
          /\ preferences' = [preferences EXCEPT !.max_budget = PyInt(n)]
    /\ last' = Did("Update Budget", "operator")
    /\ UNCHANGED <<variant, step, audio_files, transcription, results, api_key,
                   uploader, pending>>

\* the selectbox starts at the stored care level if it is an option, else at
\* "Assisted Living"; the button shows when the selection differs from the
\* stored value
UpdateCareLevel ==
    /\ variant = "APP_01"
    /\ step = "preferences"
    /\ Truthy(preferences)
    /\ ~BudgetWidgetRaises(preferences)
    /\ \E i \in 1..Len(care_options) :
          /\ PyStr(care_options[i]) # preferences.care_level
          /\ preferences' = [preferences EXCEPT !.care_level = PyStr(care_options[i])]
    /\ last' = Did("Update Care Level", "operator")
    /\ UNCHANGED <<variant, step, audio_files, transcription, results, api_key,
                   uploader, pending>>

\* Continue to Community Ranking with the step of the next button
ContinueToRanking_Skips ==
    /\ variant = "APP_01"
    /\ step = "preferences"
    /\ Truthy(preferences)
    /\ ~BudgetWidgetRaises(preferences)
    /\ step' = "results"
    /\ last' = Did("Continue to Community Ranking", "operator")
    /\ UNCHANGED <<variant, audio_files, transcription, preferences, results,
                   api_key, uploader, pending>>

ContinueToRanking ==
    /\ variant = "APP_01"
    /\ step = "preferences"
    /\ Truthy(preferences)
    /\ ~BudgetWidgetRaises(preferences)
    /\ step' = "rank"
    /\ last' = Did("Continue to Community Ranking", "operator")
    /\ UNCHANGED <<variant, audio_files, transcription, preferences, results,
                   api_key, uploader, pending>>

\* step 4, the Start Ranking button: shown while results is None.  prefs is
\* the record of the session itself, so what the stage writes to it stays.
StartRanking ==
    /\ variant = "APP_01"
    /\ step = "rank"
    /\ results = None
    /\ \E r \in RankRuns("APP_01", preferences) :
          /\ preferences' = r.prefs
          /\ results' = r.results
          /\ last' = [Ran("Start Ranking", "operator", "rank",
                          IF r.ok THEN "ok" ELSE "fail", r.error,
                          r.coords_list, r.log)
                          EXCEPT !.filtered = r.filtered, !.survivors = r.survivors,
                                 !.loaded = r.loaded]
    /\ UNCHANGED <<variant, step, audio_files, transcription, api_key, uploader,
                   pending>>

\* step 4 with a stored frame: the summary and the button to step 5
ViewShown == variant = "APP_01" /\ step = "rank" /\ results # None

\* the button sets the step and reruns; the rerun renders the results page
ViewTopRecommendations ==
    /\ ViewShown
    /\ step' = "results"
    /\ \E oc \in Explanations("APP_01", results, api_key) :
          last' = [Did("View Top Recommendations", "operator")
                      EXCEPT !.page = Render("APP_01", preferences, results,
                                             api_key, oc)]
    /\ UNCHANGED <<variant, audio_files, transcription, preferences, results,
                   api_key, uploader, pending>>

----------------------------------------------------------------------------
(* app_v2.py.  A run executes the block of the current step without any    *)
(* button: each stage starts as soon as a run finds the workflow in its    *)
(* step, stores its output, sets the next step and calls st.rerun().       *)

\* a run that changes nothing: step 1 without a file and st.stop() for a
\* missing key
V2Display(op, by) ==
    /\ pending' = FALSE
    /\ last' = Did(op, by)
    /\ UNCHANGED session

\* step 5 of app_v2: the results page
V2Results(op, by, key) ==
    /\ pending' = FALSE
    /\ \E oc \in Explanations("app_v2", results, key) :
          last' = [Did(op, by)
                      EXCEPT !.page = Render("app_v2", preferences, results, key, oc)]
    /\ UNCHANGED session

\* step 2 of app_v2
V2Transcribe(op, by, key) ==
    \/ /\ key = GoodKey
       /\ \E text \in Transcripts : transcription' = PyStr(text)
       /\ step' = "preferences"
       /\ pending' = TRUE
       /\ last' = Ran(op, by, "transcribe", "ok", "none", <<>>, <<>>)
       /\ UNCHANGED <<audio_files, preferences, results>>
    \/ /\ pending' = FALSE
       /\ last' = Ran(op, by, "transcribe", "fail", "call", <<>>, <<>>)
       /\ UNCHANGED session

\* step 3 of app_v2
V2Extract(op, by, key) ==
    \/ /\ key = GoodKey
       /\ \E raw \in Payloads :
             LET r == ParseV2(raw)
             IN  IF r.ok
                 THEN /\ preferences' = r.prefs
                      /\ step' = "rank"
                      /\ pending' = TRUE
                      /\ last' = [Ran(op, by, "preferences", "ok", "none", <<>>, <<>>)
                                      EXCEPT !.raw = raw]
                      /\ UNCHANGED <<audio_files, transcription, results>>
                 ELSE /\ pending' = FALSE
                      /\ last' = [Ran(op, by, "preferences", "fail", "parse", <<>>, <<>>)
                                      EXCEPT !.raw = raw]
                      /\ UNCHANGED session
    \/ /\ pending' = FALSE
       /\ last' = Ran(op, by, "preferences", "fail", "call", <<>>, <<>>)
       /\ UNCHANGED session

\* step 4 of app_v2
V2Rank(op, by) ==
    \E r \in IF preferences = None THEN NoRecordRuns
             ELSE RankRuns("app_v2", preferences) :
        /\ preferences' = r.prefs
        /\ results' = r.results
        /\ step' = IF r.ok THEN "results" ELSE step
        /\ pending' = r.ok
        /\ last' = [Ran(op, by, "rank", IF r.ok THEN "ok" ELSE "fail", r.error,
                        r.coords_list, r.log)
                        EXCEPT !.filtered = r.filtered, !.survivors = r.survivors,
                                 !.loaded = r.loaded]
        /\ UNCHANGED <<audio_files, transcription>>

\* one run of app_v2 with the key the sidebar holds
V2Run(op, by, key) ==
    CASE step = "upload" -> V2Display(op, by)
      [] step = "transcribe" ->
            IF key = "" THEN V2Display(op, by) ELSE V2Transcribe(op, by, key)
      [] step = "preferences" -> V2Extract(op, by, key)
      [] step = "rank" -> V2Rank(op, by)
      [] step = "results" -> V2Results(op, by, key)

\* the run st.rerun() starts
Rerun ==
    /\ variant = "app_v2"
    /\ pending
    /\ V2Run("rerun", "rerun", api_key)
    /\ UNCHANGED <<variant, api_key, uploader>>

\* the operator edits the key in the sidebar, which starts a run.  In APP_01
\* the run displays the current step; in step 1 the file of the uploader is
\* stored again.
SetApiKey ==
    /\ ~pending
    /\ \E key \in ApiKeys :
          /\ key # api_key
          /\ api_key' = key
          /\ IF variant = "APP_01"
             THEN /\ audio_files' = IF step = "upload" /\ uploader # None
                                    THEN uploader ELSE audio_files
                  /\ IF step = "results"
                     THEN \E oc \in Explanations("APP_01", results, key) :
                             last' = [Did("api_key", "operator")
                                         EXCEPT !.page = Render("APP_01", preferences,
                                                                results, key, oc)]
                     ELSE last' = Did("api_key", "operator")
                  /\ UNCHANGED <<step, transcription, preferences, results, pending>>
             ELSE V2Run("api_key", "operator", key)
    /\ UNCHANGED <<variant, uploader>>

Next ==
    \/ StartOver
    \/ UploadAudio
    \/ RemoveAudio
    \/ ContinueToTranscription
    \/ StartTranscription
    \/ ContinueToPreferences
    \/ ExtractPreferences
    \/ UpdateBudget
    \/ UpdateCareLevel
    \/ ContinueToRanking
    \/ StartRanking
    \/ ViewTopRecommendations
    \/ Rerun
    \/ SetApiKey

Spec == Init /\ [][Next]_vars

----------------------------------------------------------------------------
(* The filter pipeline of the ranking stage, statement by statement.  In   *)
(* this specification preferences is the record prefs, results holds the   *)
(* local frame df, and last names the statement that ran last, the rows of *)
(* df before it, the max_budget extraction gave, and what it raised.       *)

txtRespiteCare == <<"R","e","s","p","i","t","e"," ","C","a","r","e">>
txtMemoryUpper == <<"M","E","M","O","R","Y"," ","C","A","R","E">>

\* a record with missing cells
RowG == [CommunityID |-> 7, Service |-> NaN, Fee |-> NaN, Enhanced |-> NaN,
         Enriched |-> PyStr(<<"Y","e","s">>), Contract |-> NaN,
         Placement |-> PyStr(<<"y","e","s">>), Zip |-> PyInt(14620)]

\* records with a fee range, a fee with cents and a unit, a fee in words
RowH == [RowA EXCEPT !.CommunityID = 8,
            !.Fee = PyStr(<<"$","3",",","5","0","0"," ","-"," ","$","4",",","2","0","0">>)]

RowI == [RowB EXCEPT !.CommunityID = 9,
            !.Fee = PyStr(<<"4",",","2","5","0",".","5","0","/","m","o">>)]

RowJ == [RowC EXCEPT !.CommunityID = 10,
            !.Fee = PyStr(<<"C","a","l","l"," ","f","o","r"," ","p","r","i","c","i","n","g">>)]

\* sheets of the catalog: fees 3000, 5000, missing, 4200, 2800; every sample
\* record; missing cells; further fee texts
FilterSheets ==
    {<<RowB, RowD, RowC, RowF, RowE>>, SampleRows, <<RowG, RowA, RowB>>,
     <<RowH, RowI, RowJ, RowA>>}

\* max_budget as extraction can give it: number, zero, text with thousands
\* separator, text that is no number, empty text, null, no key
BudgetValues ==
    {PyInt(4500), PyFloat(425050), PyInt(0), PyStr(<<"4",",","0","0","0">>),
     PyStr(<<"a","b","c">>), PyStr(<<>>), None, Absent}

CareValues ==
    {Absent, PyStr(<<>>), PyStr(txtMemoryCare), PyStr(txtMemoryUpper),
     PyStr(txtAssistedMemory), PyStr(txtRespiteCare), PyStr(txtIndependentLiving),
     PyStr(txtEnhancedAL), PyStr(txtAssistedLiving)}

\* the flags as extraction can give them: a form of the list, other texts,
\* numbers, null, no key
EnhancedValues == {Absent, PyStr(<<"Y","e","s">>), PyStr(<<"y","e","s">>), PyInt(1)}

EnrichedValues == {Absent, PyBool(TRUE), PyStr(<<"n","o">>), PyInt(2)}

FilterPrefs ==
    {Prefs(b, c, e, r, Absent, Absent) :
        b \in BudgetValues, c \in CareValues,
        e \in EnhancedValues, r \in EnrichedValues}

Frame(rows) == [t |-> "df", rows |-> rows]

\* loaded: the rows of the sheet as they were loaded
Ran4(op, error, raw) ==
    [op |-> op, by |-> "operator", from |-> "rank", stage |-> "rank",
     ext |-> IF error = "none" THEN "ok" ELSE "fail", error |-> error,
     before |-> results.rows, raw |-> raw, loaded |-> last.loaded]

FilterInit ==
    /\ variant \in {"APP_01", "app_v2"}
    /\ step = "rank"
    /\ audio_files \in AudioSamples
    /\ transcription = PyStr(<<>>)
    /\ preferences \in FilterPrefs
    /\ results \in {Frame(rows) : rows \in FilterSheets}
    /\ api_key = GoodKey
    /\ uploader = None
    /\ pending = FALSE
    /\ last = [op |-> "load", by |-> "operator", from |-> "rank", stage |-> "rank",
               ext |-> "ok", error |-> "none", before |-> <<>>,
               raw |-> preferences.max_budget, loaded |-> results.rows]

\* a statement of the try block runs after the one before it, unless that raised
After(op) == last.op = op /\ last.error = "none"

FixBudgetStep ==
    /\ After("load")
    /\ preferences' = FixBudget(preferences)
    /\ last' = Ran4("FIX BUDGET", "none", last.raw)
    /\ UNCHANGED <<variant, step, audio_files, transcription, results,
                   api_key, uploader, pending>>

CleanFeeStep ==
    /\ After("FIX BUDGET")
    /\ results' = Frame([i \in 1..Len(results.rows) |-> CleanRow(results.rows[i])])
    /\ last' = Ran4("CLEAN MONTHLY FEE", "none", last.raw)
    /\ UNCHANGED <<variant, step, audio_files, transcription, preferences,
                   api_key, uploader, pending>>

CareStep ==
    /\ After("CLEAN MONTHLY FEE")
    /\ results' = Frame(CareFilter(preferences, results.rows))
    /\ last' = Ran4("SMART CARE LEVEL", "none", last.raw)
    /\ UNCHANGED <<variant, step, audio_files, transcription, preferences,
                   api_key, uploader, pending>>

EnhancedStep ==
    /\ After("SMART CARE LEVEL")
    /\ results' = Frame(EnhancedFilter(preferences, results.rows))
    /\ last' = Ran4("ENHANCED", "none", last.raw)
    /\ UNCHANGED <<variant, step, audio_files, transcription, preferences,
                   api_key, uploader, pending>>

EnrichedStep ==
    /\ After("ENHANCED")
    /\ results' = Frame(EnrichedFilter(preferences, results.rows))
    /\ last' = Ran4("ENRICHED", "none", last.raw)
    /\ UNCHANGED <<variant, step, audio_files, transcription, preferences,
                   api_key, uploader, pending>>

\* BudgetStep without the filter
BudgetStep_KeepsAll ==
    /\ After("ENRICHED")
    /\ IF BudgetRaises(preferences)
       THEN /\ last' = Ran4("BUDGET FILTER", "TypeError", last.raw)
            /\ UNCHANGED results
       ELSE /\ last' = Ran4("BUDGET FILTER", "none", last.raw)
            /\ UNCHANGED results
    /\ UNCHANGED <<variant, step, audio_files, transcription, preferences,
                   api_key, uploader, pending>>

BudgetStep ==
    /\ After("ENRICHED")
    /\ IF BudgetRaises(preferences)
       THEN /\ last' = Ran4("BUDGET FILTER", "TypeError", last.raw)
            /\ UNCHANGED results
       ELSE /\ last' = Ran4("BUDGET FILTER", "none", last.raw)
            /\ results' = Frame(BudgetFilter(preferences, results.rows))
    /\ UNCHANGED <<variant, step, audio_files, transcription, preferences,
                   api_key, uploader, pending>>

PriorityStep ==
    /\ After("BUDGET FILTER")
    /\ results' = Frame([i \in 1..Len(results.rows) |->
                           results.rows[i] @@
                               ("Priority_Level" :> assign_priority(results.rows[i]))])
    /\ last' = Ran4("PRIORITY", "none", last.raw)
    /\ UNCHANGED <<variant, step, audio_files, transcription, preferences,
                   api_key, uploader, pending>>

FilterNext ==
    \/ FixBudgetStep
    \/ CleanFeeStep
    \/ CareStep
    \/ EnhancedStep
    \/ EnrichedStep
    \/ BudgetStep
    \/ PriorityStep

FilterSpec == FilterInit /\ [][FilterNext]_vars

----------------------------------------------------------------------------
(* Properties.                                                             *)

\* a == b for two preference records: every key holds an equal value
SameRecord(p, q) ==
    /\ DOMAIN p = DOMAIN q
    /\ \A k \in DOMAIN p \ {"t"} : PyEq(p[k], q[k])

\* C1: when the try block of the transcribe, preferences or rank stage
\* raises, in either variant, the step stays and the output of that stage
\* (transcription, preferences, results) keeps its value.
C1_FailedStageKeepsState ==
    [][last'.ext = "fail" =>
          /\ step' = step
          /\ last'.stage = "transcribe" => transcription' = transcription
          /\ last'.stage = "preferences" => preferences' = preferences
          /\ last'.stage = "rank" => results' = results]_vars

\* a ranking run of APP_01 that raised in the town lookup, after its
\* geocoding calls, and left the step and the results alone
C1_Witness ==
    /\ last.stage = "rank"
    /\ last.ext = "fail"
    /\ last.error = "postal"
    /\ last.log # <<>>
    /\ step = "rank"
    /\ results = None

\* C2: the try block of a stage is entered only while the output of that
\* stage is absent (None) from the session state.
C2_NoCallWhenOutputPresent ==
    [][/\ last'.stage = "transcribe" => transcription = None
       /\ last'.stage = "preferences" => preferences = None
       /\ last'.stage = "rank" => results = None]_vars

Confirmations ==
    {"Continue to Transcription", "Continue to Preference Extraction",
     "Continue to Community Ranking", "View Top Recommendations"}

\* C3: the step changes only by Start Over, by a confirmation button, or in
\* a run whose stage, the one of the current step, has just succeeded.
C3_AdvanceOnConfirmationOrSuccess ==
    [][step' # step /\ last'.op # "Start Over" =>
          \/ last'.op \in Confirmations
          \/ last'.ext = "ok" /\ last'.stage = step]_vars

\* C4: the step moves to the next state of Steps, one state at a time, or
\* back to upload by Start Over.
C4_StepMovesForwardByOne ==
    [][step' # step =>
          \/ last'.op = "Start Over" /\ step' = "upload"
          \/ /\ StepIndex(step) < Len(Steps)
             /\ step' = Steps[StepIndex(step) + 1]]_vars

\* the last state is reached from the one before it
C4_Witness == step = "results" /\ last.from = "rank"

\* C5: after Start Over every field of the session state has its default.
C5_StartOverRestoresDefaults ==
    last.op = "Start Over" =>
        /\ step = "upload"
        /\ audio_files = None
        /\ transcription = None
        /\ preferences = None
        /\ results = None

\* Start Over pressed on the results page
C5_Witness == last.op = "Start Over" /\ last.from = "results"

\* C6: in every reachable state of each variant the operator can reset.
C6_ResetAlwaysAvailable == StartOverShown

\* C7: a run of the ranking stage leaves every field of the preference
\* record of the session state as it was.
C7_RankingKeepsPreferences ==
    [][last'.stage = "rank" => SameRecord(preferences, preferences')]_vars

\* the community of a ranked row is unresolved and has no distance
Unresolved(r) == r.Community_Coords = None /\ r.Distance_miles = None

\* the geocoding call for the postal code of row r raised or found nothing
LookupFailed(r, log) ==
    \E i \in 1..Len(log) :
        /\ log[i].w = "community"
        /\ log[i].q = ZipQuery(r.Zip)
        /\ log[i].r # "found"

\* C8: no postal-code or lookup failure makes the ranking stage raise, and
\* in the stored frame every community whose code is missing or malformed,
\* or whose lookup raised or found nothing, is unresolved without distance.
C8_PostalFailureNotFatal ==
    last.stage = "rank" =>
        /\ last.error # "postal"
        /\ results # None =>
              \A i \in 1..Len(results.rows) :
                  LET r == results.rows[i]
                  IN  (~ZipCalls(TRUE, r) \/ LookupFailed(r, last.log))
                          => Unresolved(r)

\* the coordinates of the preferred locations the log shows as found
RECURSIVE FoundPreferred(_)
FoundPreferred(log) ==
    IF log = <<>> THEN <<>>
    ELSE (IF Head(log).w = "preferred" /\ Head(log).r = "found"
          THEN <<geocode(Head(log).q, "found").c>> ELSE <<>>)
         \o FoundPreferred(Tail(log))

\* C9: whatever the preferred-location field holds, a ranking run that gets
\* past the filters has a non-empty list of reference coordinates: those of
\* the preferred locations that resolved, or the default alone.
C9_ReferenceCoordsNonEmpty ==
    last.stage = "rank" /\ last.error \notin {"load", "filter"} =>
        /\ last.coords_list # <<>>
        /\ last.coords_list = WithDefault(FoundPreferred(last.log))

\* C10: in the log of a ranking run every geocoding call that is followed by
\* another call has a sleep between the two.
C10_SleepBetweenCalls ==
    \A i \in 1..(Len(last.log) - 1) :
        last.log[i].e = "geocode" => last.log[i + 1].e = "sleep"

\* the button that starts the external call of a stage
StageButton ==
    [transcribe |-> "Start Transcription", preferences |-> "Extract Preferences",
     rank |-> "Start Ranking"]

\* C11: the external call of a stage is made only in a run the operator
\* starts with the button of that stage, never in a run that only displays
\* the page again or that enters the state.
C11_CallOnlyOnOperatorAction ==
    [][last'.stage # "none" =>
          last'.by = "operator" /\ last'.op = StageButton[last'.stage]]_vars

\* the operator's amendments of the Preference Record
Amendments == {"Update Budget", "Update Care Level"}

\* the Preference Record of the session state is replaced, or a key of it
\* holds a value that is not equal (==) to the one before
RecordChanged ==
    IF preferences = None \/ preferences' = None
    THEN preferences' # preferences
    ELSE ~SameRecord(preferences, preferences')

\* C12: outside Start Over, a field of the session state that is set keeps
\* its value (the Preference Record but for the operator's amendments), and
\* a field changes only in a run of the stage that produces it.
C12_FieldsWrittenOnce ==
    [][last'.op # "Start Over" =>
          /\ audio_files' # audio_files =>
                audio_files = None /\ last'.op = "file_uploader"
          /\ transcription' # transcription =>
                transcription = None /\ last'.stage = "transcribe"
          /\ (RecordChanged /\ last'.op \notin Amendments) =>
                preferences = None /\ last'.stage = "preferences"
          /\ results' # results =>
                results = None /\ last'.stage = "rank"]_vars

\* rows i < j of a frame are in (tier, distance) order, missing distance last
InOrder(a, b) ==
    \/ a.Priority_Level < b.Priority_Level
    \/ /\ a.Priority_Level = b.Priority_Level
       /\ \/ b.Distance_miles = None
          \/ /\ a.Distance_miles # None
             /\ a.Distance_miles.c <= b.Distance_miles.c

\* C13: the frame a ranking stores is ordered by ascending tier, then by
\* ascending distance, rows without a distance last within their tier.
C13_ResultsSorted ==
    results # None =>
        \A i, j \in 1..Len(results.rows) :
            i < j => InOrder(results.rows[i], results.rows[j])

\* a stored frame whose sort moved a row: the community loaded second is
\* first, nearer than the one behind it or the only one with a distance
C13_Witness ==
    /\ results # None
    /\ Len(results.rows) >= 2
    /\ results.rows[1].CommunityID > results.rows[2].CommunityID
    /\ results.rows[1].Priority_Level = results.rows[2].Priority_Level
    /\ results.rows[1].Distance_miles # None

\* C14: every row of a stored frame has a rank within its tier, and the
\* ranks of a tier are 1..n in the order of the frame.
C14_RankWithinTier ==
    results # None =>
        \A i \in 1..Len(results.rows) :
            /\ "Rank_Within_Priority" \in DOMAIN results.rows[i]
            /\ results.rows[i].Rank_Within_Priority =
                   Cardinality({j \in 1..i : results.rows[j].Priority_Level
                                             = results.rows[i].Priority_Level})

\* the sort and, in APP_01, the rank column, applied to a frame
SortAndRank(app, rows) ==
    IF app = "APP_01" THEN WithRank(sort_values(rows)) ELSE sort_values(rows)

\* C15: sorting and ranking a stored frame again gives the same rows in the
\* same order with the same ranks.
C15_SortRankIdempotent ==
    results # None => SortAndRank(variant, results.rows) = results.rows

\* a stored frame with a tie: two rows of one tier, both without distance
C15_Witness ==
    /\ results # None
    /\ variant = "APP_01"
    /\ Len(results.rows) >= 2
    /\ results.rows[1].Priority_Level = results.rows[2].Priority_Level
    /\ results.rows[1].Distance_miles = None
    /\ results.rows[2].Distance_miles = None
    /\ results.rows[2].Rank_Within_Priority = 2

\* the 3-case rule on the lower-cased contract and placement texts
TierRule(c, p) ==
    IF c # <<"n","o">> /\ c # <<"n","a","n">> /\ c # <<>> THEN 1
    ELSE IF c = <<"n","o">> /\ p = <<"y","e","s">> THEN 2
    ELSE 3

\* C16: the tier of every surviving row is the value of the 3-case rule on
\* its lower-cased contract and placement texts, hence one of 1, 2, 3.
C16_TierByRule ==
    last.op = "PRIORITY" =>
        \A i \in 1..Len(results.rows) :
            LET r == results.rows[i]
            IN  /\ r.Priority_Level =
                       TierRule(Lower(Str(r.Contract)), Lower(Str(r.Placement)))
                /\ r.Priority_Level \in {1, 2, 3}

\* a frame with a row of each tier, one of them with a missing contract cell
C16_Witness ==
    /\ last.op = "PRIORITY"
    /\ {results.rows[i].Priority_Level : i \in 1..Len(results.rows)} = {1, 2, 3}
    /\ \E i \in 1..Len(results.rows) : results.rows[i].Contract = NaN

\* the rows of a frame whose fee is present and at most cents
WithinFee(rows, cents) ==
    LET Keep(r) == r.Fee # NaN /\ r.Fee.c <= cents
    IN  SelectSeq(rows, Keep)

Fees(rows) == [i \in 1..Len(rows) |-> rows[i].Fee]

\* C17: with a numeric max budget B the budget filter keeps exactly the rows
\* whose fee is present and at most B.
C17_BudgetFilterExact ==
    (last.op = "BUDGET FILTER" /\ IsNum(Get(last.raw)) /\ Get(last.raw).c >= 0) =>
        /\ last.error = "none"
        /\ results.rows = WithinFee(last.before, Get(last.raw).c)

\* fees 3000, 5000, missing, 4200, 2800 with budget 4500 leave 3000, 4200, 2800
C17_Witness ==
    /\ last.op = "BUDGET FILTER"
    /\ last.raw = PyInt(4500)
    /\ Fees(last.before) = <<PyFloat(300000), PyFloat(500000), NaN,
                             PyFloat(420000), PyFloat(280000)>>
    /\ Fees(results.rows) = <<PyFloat(300000), PyFloat(420000), PyFloat(280000)>>

\* C18: whatever max_budget extraction gave, the budget the filter reads is
\* unknown (None) or a non-negative number, the filter is applied exactly
\* when it is a number, and the statement does not raise.
C18_BudgetNormalized ==
    last.op = "BUDGET FILTER" =>
        LET b == Get(preferences.max_budget)
        IN  /\ b = None \/ (IsNum(b) /\ b.c >= 0)
            /\ last.error = "none"
            /\ results.rows = IF b = None THEN last.before
                              ELSE WithinFee(last.before, b.c)

\* the rows of a frame whose service text has the word, in any letter case
ServiceHas(rows, word) ==
    LET Keep(r) == r.Service # NaN /\ Contains(Lower(r.Service.s), word)
    IN  SelectSeq(rows, Keep)

\* the care_level text of the record, lower-cased; <<>> when empty or missing
CareText ==
    IF Truthy(Get(preferences.care_level))
    THEN Lower(Str(preferences.care_level)) ELSE <<>>

\* C19: when the care_level text has "memory" in it, in any letter case,
\* the care-level filter keeps exactly the rows whose service has "memory".
C19_MemoryFilter ==
    (last.op = "SMART CARE LEVEL" /\ Contains(CareText, <<"m","e","m","o","r","y">>)) =>
        results.rows = ServiceHas(last.before, <<"m","e","m","o","r","y">>)

\* the keywords of the three classes
ClassKeywords ==
    {<<"a","s","s","i","s","t","e","d">>, <<"a","l">>, <<"e","n","h","a","n","c","e","d">>,
     <<"m","e","m","o","r","y">>, <<"d","e","m","e","n","t","i","a">>,
     <<"i","n","d","e","p","e","n","d","e","n","t">>, <<"i","l">>}

\* C20: when the care_level is empty or missing, or its text has none of the
\* keywords of the three classes, the care-level filter removes no row.
C20_NoClassNoFilter ==
    (last.op = "SMART CARE LEVEL" /\ \A k \in ClassKeywords : ~Contains(CareText, k)) =>
        results.rows = last.before

\* a care_level text without keyword, on a sheet in which every class would
\* have removed a row
C20_Witness ==
    /\ last.op = "SMART CARE LEVEL"
    /\ preferences.care_level = PyStr(txtRespiteCare)
    /\ Len(results.rows) = 6
    /\ Len(ServiceHas(last.before, <<"a","s","s","i","s","t","e","d">>)) < 6
    /\ Len(ServiceHas(last.before, <<"m","e","m","o","r","y">>)) < 6

\* the forms of a flag that the filter recognizes
FlagForms ==
    {PyBool(TRUE), PyStr(<<"t","r","u","e">>), PyStr(<<"T","r","u","e">>),
     PyStr(<<"Y","e","s">>)}

\* the rows whose Enhanced (Enriched) cell is "yes" in any letter case
EnhancedYes(rows) ==
    LET Keep(r) == r.Enhanced.t = "str" /\ Lower(r.Enhanced.s) = <<"y","e","s">>
    IN  SelectSeq(rows, Keep)

EnrichedYes(rows) ==
    LET Keep(r) == r.Enriched.t = "str" /\ Lower(r.Enriched.s) = <<"y","e","s">>
    IN  SelectSeq(rows, Keep)

\* C21: the enhanced (enriched) filter keeps exactly the rows whose cell is
\* "yes" in any letter case when the flag is one of true, "true", "True",
\* "Yes", and removes no row for any other value of the flag.
C21_FlagFilters ==
    /\ last.op = "ENHANCED" =>
          results.rows = IF Get(preferences.enhanced) \in FlagForms
                         THEN EnhancedYes(last.before) ELSE last.before
    /\ last.op = "ENRICHED" =>
          results.rows = IF Get(preferences.enriched) \in FlagForms
                         THEN EnrichedYes(last.before) ELSE last.before

\* the orders in which the four filters can be applied
Orders == {p \in [1..4 -> 1..4] : \A i, j \in 1..4 : i # j => p[i] # p[j]}

ApplyFilter(k, prefs, rows) ==
    CASE k = 1 -> CareFilter(prefs, rows)
      [] k = 2 -> EnhancedFilter(prefs, rows)
      [] k = 3 -> EnrichedFilter(prefs, rows)
      [] k = 4 -> BudgetFilter(prefs, rows)

ApplyOrder(p, prefs, rows) ==
    ApplyFilter(p[4], prefs,
        ApplyFilter(p[3], prefs,
            ApplyFilter(p[2], prefs,
                ApplyFilter(p[1], prefs, rows))))

\* the row meets every criterion the record sets
MeetsAll(prefs, r) ==
    /\ CareClass(prefs) # <<>> => ServiceContains(r, CareClass(prefs))
    /\ FlagSet(Get(prefs.enhanced)) => IsYes(r.Enhanced)
    /\ FlagSet(Get(prefs.enriched)) => IsYes(r.Enriched)
    /\ Get(prefs.max_budget) # None =>
          (r.Fee # NaN /\ r.Fee.c <= Get(prefs.max_budget).c)

Cleaned(rows) == [i \in 1..Len(rows) |-> CleanRow(rows[i])]

\* C22: the four filters applied in any order leave the rows the code's
\* order leaves, which are the rows that meet every criterion that applies.
C22_FiltersCommute ==
    (last.op = "BUDGET FILTER" /\ last.error = "none") =>
        /\ \A p \in Orders :
              ApplyOrder(p, preferences, Cleaned(last.loaded)) = results.rows
        /\ LET Keep(r) == MeetsAll(preferences, r)
           IN  results.rows = SelectSeq(Cleaned(last.loaded), Keep)

\* three filters applied, each one removing a row that the others keep
C22_Witness ==
    /\ last.op = "BUDGET FILTER"
    /\ last.error = "none"
    /\ CareClass(preferences) # <<>>
    /\ FlagSet(Get(preferences.enhanced))
    /\ Get(preferences.max_budget) # None
    /\ Len(results.rows) >= 1
    /\ Len(results.rows) < Len(CareFilter(preferences, Cleaned(last.loaded)))
    /\ Len(results.rows) < Len(EnhancedFilter(preferences, Cleaned(last.loaded)))
    /\ Len(results.rows) < Len(BudgetFilter(preferences, Cleaned(last.loaded)))

\* the fee texts of the sheets and the number each one stands for, in cents
ExpectedFee ==
    {<<PyStr(<<"$","4",",","0","0","0",".","0","0">>), PyFloat(400000)>>,
     <<PyInt(3000), PyFloat(300000)>>,
     <<PyStr(<<"N","/","A">>), NaN>>,
     <<PyStr(<<"$","5",",","0","0","0">>), PyFloat(500000)>>,
     <<PyStr(<<"$","2",",","8","0","0">>), PyFloat(280000)>>,
     <<PyStr(<<"$","4",",","2","0","0">>), PyFloat(420000)>>,
     <<NaN, NaN>>,
     <<PyStr(<<"$","3",",","5","0","0"," ","-"," ","$","4",",","2","0","0">>), PyFloat(350000)>>,
     <<PyStr(<<"4",",","2","5","0",".","5","0","/","m","o">>), PyFloat(425050)>>,
     <<PyStr(<<"C","a","l","l"," ","f","o","r"," ","p","r","i","c","i","n","g">>), NaN>>}

\* C24: fee normalization gives every row a fee that is missing or a
\* non-negative number: the first decimal number of the text without "$"
\* and ",", missing when the text has none.
C24_FeeNormalized ==
    last.op = "CLEAN MONTHLY FEE" =>
        \A i \in 1..Len(results.rows) :
            LET fee == results.rows[i].Fee
            IN  /\ fee = NaN \/ (fee.t = "float" /\ fee.c >= 0)
                /\ <<last.before[i].Fee, fee>> \in ExpectedFee

\* "$4,000.00" gives 4000.0 and "N/A" gives missing
C24_Witness ==
    /\ last.op = "CLEAN MONTHLY FEE"
    /\ \E i \in 1..Len(results.rows) :
          /\ last.before[i].Fee = PyStr(<<"$","4",",","0","0","0",".","0","0">>)
          /\ results.rows[i].Fee = PyFloat(400000)
    /\ \E i \in 1..Len(results.rows) :
          /\ last.before[i].Fee = PyStr(<<"N","/","A">>)
          /\ results.rows[i].Fee = NaN

\* C25: the budget filter applied to the rows it has left, with the same
\* budget, removes no row.
C25_BudgetFilterIdempotent ==
    (last.op = "BUDGET FILTER" /\ last.error = "none") =>
        BudgetFilter(preferences, results.rows) = results.rows

\* the filter has removed a row with a fee above the budget and one without fee
C25_Witness ==
    /\ last.op = "BUDGET FILTER"
    /\ last.error = "none"
    /\ IsNum(Get(preferences.max_budget))
    /\ results.rows # <<>>
    /\ \E i \in 1..Len(last.before) : last.before[i].Fee = NaN
    /\ \E i \in 1..Len(last.before) :
          /\ last.before[i].Fee # NaN
          /\ last.before[i].Fee.c > Get(preferences.max_budget).c

\* the record the variant stores for the reply raw
StoredFrom(raw) ==
    IF variant = "APP_01" THEN ParseV1(raw, transcription.s).prefs
    ELSE ParseV2(raw).prefs

\* C26: a reply that is valid JSON inside a code fence, with or without the
\* json tag, is unwrapped before parsing: the extraction stores the record
\* that the same JSON without the fence gives.
C26_FenceUnwrapped ==
    \A f \in {"json", "plain"}, p \in PrefsSamples :
        (last.stage = "preferences" /\ last.raw = PyStr(Wrap(f, <<tkObject(p)>>))) =>
            /\ last.ext = "ok"
            /\ preferences = StoredFrom(PyStr(<<tkObject(p)>>))

\* C27: a reply that is not empty and not valid JSON does not abort the
\* extraction: the stage completes and stores a record.
C27_MalformedDegrades ==
    (last.stage = "preferences"
        /\ last.raw \in {PyStr(Wrap(f, <<tkJunk>>)) : f \in Fences}) =>
            /\ last.ext = "ok"
            /\ preferences.t = "dict"

\* the replies without content: no text, the empty text, white space, and
\* a fence around nothing
EmptyReplies == {None} \cup {PyStr(Wrap(f, b)) : f \in Fences, b \in {<<>>, <<tkSpace>>}}

\* C28: an extraction whose reply is wholly empty fails: the error is
\* shown, no record is stored and the step stays preferences.
C28_EmptyPayloadFatal ==
    [][(last'.stage = "preferences" /\ last'.raw \in EmptyReplies) =>
          /\ last'.ext = "fail"
          /\ last'.error # "none"
          /\ preferences' = preferences
          /\ step = "preferences"
          /\ step' = "preferences"]_vars

\* a fence around nothing has been rejected
C28_Witness ==
    /\ last.stage = "preferences"
    /\ last.raw = PyStr(Wrap("json", <<>>))
    /\ last.ext = "fail"
    /\ step = "preferences"

\* C23: a ranking run whose filters leave no row succeeds: it stores an
\* empty frame that counts as present, the operator can go on to the
\* results, and the results page reports 0 matches.
C23_EmptyResultIsValid ==
    /\ (last.stage = "rank" /\ last.filtered /\ last.survivors = <<>>) =>
          /\ last.ext = "ok"
          /\ results # None
          /\ results.rows = <<>>
          /\ IF variant = "APP_01" THEN ViewShown ELSE step = "results"
    /\ (last.page.rendered /\ results.rows = <<>>) => last.page.matches = 0

\* the communities a page has to show, by identifier
DisplayedIds ==
    LET rows == Displayed(variant, results.rows)
    IN  [i \in 1..Len(rows) |-> rows[i].CommunityID]

\* C29: a results page on which the explanation of a community failed shows
\* that community and every later one, and the run leaves step,
\* preferences and results as they were.
C29_ExplanationFailureHarmless ==
    [][(last'.page.rendered
          /\ \E i \in 1..Len(last'.page.explained) : last'.page.explained[i] = "fail") =>
              /\ last'.page.shown = DisplayedIds'
              /\ Len(last'.page.explained) = Len(last'.page.shown)
              /\ preferences' = preferences
              /\ results' = results
              /\ step' = "results"
              /\ (step = "results" \/ last'.op = "View Top Recommendations")]_vars

\* the first explanation failed, a later one succeeded, both are on display
C29_Witness ==
    /\ last.page.rendered
    /\ Len(last.page.shown) >= 2
    /\ last.page.explained[1] = "fail"
    /\ last.page.explained[2] = "ok"
    /\ last.page.shown = DisplayedIds

\* C30: after a ranking a row has a distance exactly when it has a
\* coordinate, and the distance is the least of the distances from that
\* coordinate to the reference coordinates.
C30_DistanceIsMinimum ==
    (last.stage = "rank" /\ last.ext = "ok") =>
        \A i \in 1..Len(results.rows) :
            LET c == results.rows[i].Community_Coords
                d == results.rows[i].Distance_miles
                refs == {last.coords_list[k] : k \in 1..Len(last.coords_list)}
            IN  /\ d = None <=> c = None
                /\ d # None =>
                      /\ \E k \in refs : d.c = Geodesic(c.c, k)
                      /\ \A k \in refs : d.c <= Geodesic(c.c, k)

\* two reference coordinates, a row nearer to the second one, and a row
\* without a coordinate
C30_Witness ==
    /\ last.stage = "rank"
    /\ last.ext = "ok"
    /\ Len(last.coords_list) = 2
    /\ \E i \in 1..Len(results.rows) :
          /\ results.rows[i].Distance_miles # None
          /\ results.rows[i].Distance_miles.c
                < Geodesic(results.rows[i].Community_Coords.c, last.coords_list[1])
    /\ \E i \in 1..Len(results.rows) : results.rows[i].Distance_miles = None

wAssisted == <<"a","s","s","i","s","t","e","d">>
wMemory == <<"m","e","m","o","r","y">>
wIndependent == <<"i","n","d","e","p","e","n","d","e","n","t">>

\* the care_level text has one of the keywords
HasAny(words) == \E k \in words : Contains(CareText, k)

\* the four values of the care-level enum and the class of each
EnumClass ==
    {<<PyStr(txtIndependentLiving), wIndependent>>,
     <<PyStr(txtAssistedLiving), wAssisted>>,
     <<PyStr(txtEnhancedAL), wAssisted>>,
     <<PyStr(txtMemoryCare), wMemory>>}

\* C31: the care-level step applies the filter of one class at most, the
\* first that matches in the order Assisted (assisted, al, enhanced), Memory
\* (memory, dementia), Independent (independent, il); each enum value selects
\* its own class, "Enhanced Assisted Living" the Assisted class.
C31_OneClassFirstMatch ==
    last.op = "SMART CARE LEVEL" =>
        /\ results.rows =
              IF HasAny({wAssisted, <<"a","l">>, <<"e","n","h","a","n","c","e","d">>})
              THEN ServiceHas(last.before, wAssisted)
              ELSE IF HasAny({wMemory, <<"d","e","m","e","n","t","i","a">>})
              THEN ServiceHas(last.before, wMemory)
              ELSE IF HasAny({wIndependent, <<"i","l">>})
              THEN ServiceHas(last.before, wIndependent)
              ELSE last.before
        /\ \A e \in EnumClass :
              preferences.care_level = e[1] =>
                  results.rows = ServiceHas(last.before, e[2])

\* a text with keywords of two classes: the Assisted filter alone has run,
\* and the Memory filter, alone or after it, would have left other rows
C31_Witness ==
    /\ last.op = "SMART CARE LEVEL"
    /\ preferences.care_level = PyStr(txtAssistedMemory)
    /\ results.rows = ServiceHas(last.before, wAssisted)
    /\ results.rows # ServiceHas(last.before, wMemory)
    /\ results.rows # ServiceHas(results.rows, wMemory)
    /\ results.rows # last.before

\* the geocoding calls in the log of the last run
GeoCalls == {i \in 1..Len(last.log) : last.log[i].e = "geocode"}

\* the loaded row is among the rows the filters left
Survives(r) ==
    \E i \in 1..Len(last.survivors) : last.survivors[i].CommunityID = r.CommunityID

\* the row's code can be looked up, and the call that would look it up
HasCode(r) == NotNa(r.Zip) /\ CellFloat(r.Zip).ok

CalledFor(r) ==
    \E i \in GeoCalls :
        last.log[i].w = "community" /\ last.log[i].q = ZipQuery(r.Zip)

C33_StepInputsPresent ==
    /\ step \in {"upload", "transcribe", "preferences", "rank", "results"}
    /\ step = "transcribe" => audio_files # None
    /\ step = "preferences" => transcription # None
    /\ step = "rank" => (preferences # None /\ preferences.t = "dict")
    /\ step = "results" => (results # None /\ results.t = "df")

\* C34: once the transcription call or the extraction call of APP_01 has
\* succeeded, whatever it returned, the confirmation that advances the step
\* is available and the call is not offered again.
C34_SuccessCountsAsPresent ==
    /\ (last.op = "Start Transcription" /\ last.ext = "ok") =>
          (ENABLED ContinueToPreferences /\ ~ENABLED StartTranscription)
    /\ (last.op = "Extract Preferences" /\ last.ext = "ok") =>
          (ENABLED ContinueToRanking /\ ~ENABLED ExtractPreferences)

\* C35: in the preferences state of APP_01 with a record of at least one
\* key stored, Continue to Community Ranking is available whatever the
\* record holds as max_budget.
C35_ContinueForEveryBudget ==
    (variant = "APP_01" /\ step = "preferences" /\ Truthy(preferences)) =>
        ENABLED ContinueToRanking

\* the fields of a preference record other than field f are the same in p and q
SameBut(f, p, q) ==
    \A g \in (DOMAIN p \cup DOMAIN q) \ {f} :
        g \in DOMAIN p /\ g \in DOMAIN q /\ p[g] = q[g]

\* C36: Update Budget changes max_budget and Update Care Level changes
\* care_level, and nothing else: the step, the audio, the transcription, the
\* results and every other field of the record stay as they were.
C36_AmendmentFrame ==
    [][/\ last'.op = "Update Budget" =>
             /\ SameBut("max_budget", preferences, preferences')
             /\ UNCHANGED <<step, audio_files, transcription, results>>
       /\ last'.op = "Update Care Level" =>
             /\ SameBut("care_level", preferences, preferences')
             /\ UNCHANGED <<step, audio_files, transcription, results>>]_vars

\* the budget amended after the care level: both fields hold values no
\* extracted record of PrefsSamples has together
C36_Witness ==
    /\ last.op = "Update Budget"
    /\ step = "preferences"
    /\ preferences.max_budget = PyInt(4500)
    /\ preferences.care_level = PyStr(txtEnhancedAL)

====
